---- MODULE Spec2Model ----
(***************************************************************************)
(* Chunk indexing, vector storage and multi-pass retrieval of the ca_ai    *)
(* backend (src/backend/services/indexing.py, search.py, cache.py,         *)
(* chunking.py, src/backend/database/connection.py,                        *)
(* src/backend/api/documents.py).                                          *)
(*                                                                         *)
(* The persisted state is the two SQLite tables the code writes with one   *)
(* autocommitted statement at a time: document_chunks (rows with an        *)
(* implicit integer rowid) and document_fts (rowid, text).  Every `await`  *)
(* of a storage call is one step of a task, so that the steps of two       *)
(* tasks interleave exactly where the coroutines can be switched.          *)
(***************************************************************************)
EXTENDS Integers, Sequences, FiniteSets, TLC

VARIABLES
    document_chunks,   \* set of rows of table document_chunks
    document_fts,      \* set of [rowid, text] entries of table document_fts
    doc_status,        \* documents.status, per document id
    next_uuid,         \* the next fresh chunk id (uuid.uuid4())
    task,              \* per task: the running call and its local variables
    faults,            \* per task: storage errors raised in its calls so far
    cache,             \* Cache.cache: key -> [value, expires_at]
    time,              \* time.time(), in seconds since the process started
    returned,          \* the last search call, its arguments and what it returned
    searches           \* search calls made so far

vars == <<document_chunks, document_fts, doc_status, next_uuid, task, faults,
          cache, time, returned, searches>>

----------------------------------------------------------------------------
(* Bounds of the model *)

\* calls made in one behaviour
MaxCalls == 2
\* storage errors raised in one behaviour
MaxFaults == 1

\* search calls made in one behaviour
MaxSearches == 2

\* the largest limit a search is called with
MaxLimit == 3

\* chunk ids handed out in one behaviour of the retrieval system
MaxChunkIds == 5

\* the clock advances in steps of TickSeconds up to MaxTime
TickSeconds == 1801

MaxTime == 1801

\* the longest text given to the chunker
MaxTextLen == 5

----------------------------------------------------------------------------
(* Values *)

None == 0

Tasks == {"t1", "t2"}

\* Writes to one document are serialized by the caller: each task writes
\* documents of its own.
DocsOf(t) == IF t = "t1" THEN {"A"} ELSE {"B", "C"}

Docs == {"A", "B", "C"}

max_retries == 3

SetMax(S) == CHOOSE x \in S : \A y \in S : y <= x

SetMin(S) == CHOOSE x \in S : \A y \in S : x <= y

Range(seq) == {seq[k] : k \in 1..Len(seq)}

RECURSIVE SortedSeq(_)
SortedSeq(S) == IF S = {} THEN <<>> ELSE <<SetMin(S)>> \o SortedSeq(S \ {SetMin(S)})

----------------------------------------------------------------------------
(* Text: a Python str is a sequence of one-character strings *)

IsSpace(c) == c \in {" ", "\n"}

RECURSIVE lstrip(_)
lstrip(s) == IF s # <<>> /\ IsSpace(Head(s)) THEN lstrip(Tail(s)) ELSE s

RECURSIVE rstrip(_)
rstrip(s) ==
    IF s # <<>> /\ IsSpace(s[Len(s)]) THEN rstrip(SubSeq(s, 1, Len(s) - 1)) ELSE s

\* a strip that removes nothing
NoStrip(s) == s

\* str.strip()
strip(s) == rstrip(lstrip(s))

\* `sep in s`
Contains(s, sep) ==
    \E i \in 1..(Len(s) - Len(sep) + 1) : SubSeq(s, i, i + Len(sep) - 1) = sep

\* a slice one character longer
LongerSuffix(s, k) ==
    IF k + 1 >= Len(s) THEN s ELSE SubSeq(s, Len(s) - k, Len(s))

\* s[-k:] for k > 0
Suffix(s, k) == IF k >= Len(s) THEN s ELSE SubSeq(s, Len(s) - k + 1, Len(s))

\* str.split(sep) for a non-empty sep
RECURSIVE str_split(_, _)
str_split(s, sep) ==
    LET n == Len(sep)
        at == {i \in 1..(Len(s) - n + 1) : SubSeq(s, i, i + n - 1) = sep}
    IN  IF at = {} THEN <<s>>
        ELSE LET i == SetMin(at)
             IN  <<SubSeq(s, 1, i - 1)>> \o str_split(SubSeq(s, i + n, Len(s)), sep)

RECURSIVE Flatten(_)
Flatten(ss) == IF ss = <<>> THEN <<>> ELSE Head(ss) \o Flatten(Tail(ss))

RECURSIVE SelectNonBlank(_)
SelectNonBlank(ps) ==
    IF ps = <<>> THEN <<>>
    ELSE (IF strip(Head(ps)) # <<>> THEN <<Head(ps)>> ELSE <<>>)
         \o SelectNonBlank(Tail(ps))

----------------------------------------------------------------------------
(* TextChunker *)

\* TextChunker.separators, the character-level fallback "" last
separators == << <<"\n", "\n">>, <<"\n">>, <<".", " ">>, <<" ">>, <<>> >>

\* one round of _split_by_separators for one part
SplitPart(part, sep) ==
    IF Contains(part, sep)
    THEN LET sp == str_split(part, sep)
         IN  [i \in 1..Len(sp) |-> IF i < Len(sp) THEN sp[i] \o sep ELSE sp[i]]
    ELSE <<part>>

RECURSIVE SplitRounds(_, _)
SplitRounds(parts, seps) ==
    IF seps = <<>> THEN parts
    ELSE IF Head(seps) = <<>> THEN SplitRounds(parts, Tail(seps))
    ELSE SplitRounds(Flatten([k \in 1..Len(parts) |-> SplitPart(parts[k], Head(seps))]),
                     Tail(seps))

_split_by_separators(text) == SelectNonBlank(SplitRounds(<<text>>, separators))

_create_chunk(text, chunk_index, metadata) ==
    [text |-> text, chunk_index |-> chunk_index, length |-> Len(text),
     metadata |-> metadata]

\* re.split(r'([.!?]\s+)', text): pieces and delimiters alternate
RECURSIVE SpanSpaces(_, _)
SpanSpaces(s, i) == IF i <= Len(s) /\ IsSpace(s[i]) THEN SpanSpaces(s, i + 1) ELSE i

RECURSIVE re_split_sentences(_, _, _)
re_split_sentences(s, i, piece) ==
    IF i > Len(s) THEN <<piece>>
    ELSE IF s[i] \in {".", "!", "?"} /\ i < Len(s) /\ IsSpace(s[i + 1])
         THEN LET j == SpanSpaces(s, i + 1)
              IN  <<piece, SubSeq(s, i, j - 1)>> \o re_split_sentences(s, j, <<>>)
         ELSE re_split_sentences(s, i + 1, Append(piece, s[i]))

\* the accumulation loop shared by split_text and _split_large_text: the
\* state is [chunks, current_chunk, current_length, chunk_index]
Emit(st, metadata) ==
    [st EXCEPT !.chunks = Append(@, _create_chunk(strip(st.current_chunk),
                                                  st.chunk_index, metadata)),
               !.chunk_index = @ + 1]

AddFinal(st, metadata) ==
    IF strip(st.current_chunk) # <<>> THEN Emit(st, metadata).chunks ELSE st.chunks

RECURSIVE LargeLoop(_, _, _, _, _)
LargeLoop(sentences, st, metadata, chunk_size, chunk_overlap) ==
    IF sentences = <<>> THEN st
    ELSE LET sentence == Head(sentences)
             next ==
               IF st.current_length + Len(sentence) > chunk_size
                  /\ st.current_chunk # <<>>
               THEN LET e == Emit(st, metadata)
                    IN  IF chunk_overlap > 0
                        THEN LET c == Suffix(st.current_chunk, chunk_overlap) \o sentence
                             IN  [e EXCEPT !.current_chunk = c,
                                           !.current_length = Len(c)]
                        ELSE [e EXCEPT !.current_chunk = sentence,
                                       !.current_length = Len(sentence)]
               ELSE [st EXCEPT !.current_chunk = @ \o sentence,
                               !.current_length = @ + Len(sentence)]
         IN  LargeLoop(Tail(sentences), next, metadata, chunk_size, chunk_overlap)

_split_large_text(text, start_index, metadata, chunk_size, chunk_overlap) ==
    AddFinal(LargeLoop(re_split_sentences(text, 1, <<>>),
                       [chunks |-> <<>>, current_chunk |-> <<>>,
                        current_length |-> 0, chunk_index |-> start_index],
                       metadata, chunk_size, chunk_overlap),
             metadata)

RECURSIVE SplitLoop(_, _, _, _, _)
SplitLoop(parts, st, metadata, chunk_size, chunk_overlap) ==
    IF parts = <<>> THEN st
    ELSE LET part == Head(parts)
             next ==
               IF Len(part) > chunk_size
               THEN LET saved == IF st.current_chunk # <<>>
                                 THEN [Emit(st, metadata) EXCEPT
                                          !.current_chunk = <<>>,
                                          !.current_length = 0]
                                 ELSE st
                        sub == _split_large_text(part, saved.chunk_index, metadata,
                                                 chunk_size, chunk_overlap)
                    IN  [saved EXCEPT !.chunks = @ \o sub,
                                      !.chunk_index = @ + Len(sub)]
               ELSE IF st.current_length + Len(part) > chunk_size
                       /\ st.current_chunk # <<>>
               THEN LET e == Emit(st, metadata)
                    IN  IF chunk_overlap > 0
                        THEN LET c == Suffix(st.current_chunk, chunk_overlap) \o part
                             IN  [e EXCEPT !.current_chunk = c,
                                           !.current_length = Len(c)]
                        ELSE [e EXCEPT !.current_chunk = part,
                                       !.current_length = Len(part)]
               ELSE [st EXCEPT !.current_chunk = @ \o part,
                               !.current_length = @ + Len(part)]
         IN  SplitLoop(Tail(parts), next, metadata, chunk_size, chunk_overlap)

split_text(text, metadata, chunk_size, chunk_overlap) ==
    IF text = <<>> \/ strip(text) = <<>> THEN <<>>
    ELSE AddFinal(SplitLoop(_split_by_separators(text),
                            [chunks |-> <<>>, current_chunk |-> <<>>,
                             current_length |-> 0, chunk_index |-> 0],
                            metadata, chunk_size, chunk_overlap),
                  metadata)

----------------------------------------------------------------------------
(* DocumentChunker and EmbeddingGenerator *)

\* None where the code expects a dict: no key is in it, and it is no dict
NoneDict == [none |-> TRUE]

\* dict.get(key, default) on a record
Get(r, key, default) == IF key \in DOMAIN r THEN r[key] ELSE default

Restrict(r, keys) == [k \in (DOMAIN r) \cap keys |-> r[k]]

\* dict.update
Update(r, u) == [k \in (DOMAIN r) \cup (DOMAIN u) |-> IF k \in DOMAIN u THEN u[k] ELSE r[k]]

\* DocumentChunker(chunk_size, chunk_overlap) as the model configures it
ChunkerConfig == [chunk_size |-> 6, chunk_overlap |-> 1]

\* DocumentChunker.chunk_document without parsed_data
chunk_document(document_id, text, document_metadata) ==
    LET chunk_metadata ==
            Update([document_id |-> document_id],
                   Restrict(document_metadata,
                            {"client_id", "period", "doc_type", "category", "file_path"}))
        chunks == split_text(text, chunk_metadata,
                             ChunkerConfig.chunk_size, ChunkerConfig.chunk_overlap)
    IN  [k \in 1..Len(chunks) |->
            Update(chunks[k], [document_id |-> document_id,
                               document_metadata |-> document_metadata])]

\* the embedding model: an opaque deterministic function of the text
encode(text) == <<Len(text), Cardinality({k \in 1..Len(text) : IsSpace(text[k])})>>

\* EmbeddingGenerator.generate_batch
generate_batch(texts) == [k \in 1..Len(texts) |-> encode(texts[k])]

\* the extracted text of each document and the metadata process_document_task
\* passes to index_document
DocText(d) ==
    CASE d = "A" -> <<"a", "b", "c", "d", "e", " ", "f", "g", "h", "i", "j">>
      [] d = "B" -> <<"k", "l", "m", ".", " ", "n", "o", "p", "q", "r", "s">>
      [] d = "W" -> <<" ", "\n", " ">>
      [] d = "E" -> <<>>
      [] d = "H" -> <<"I", "-", "1">>
      [] d = "P" -> <<"i", "n", "v", "7">>
      [] OTHER   -> <<" ", "t", "u", " ">>

DocumentMetadata(d) == [file_type |-> "txt", file_path |-> d]

----------------------------------------------------------------------------
(* Characters and the regular expressions of search.py *)

UpperLetters == <<"A", "B", "C", "D", "E", "F", "G", "H", "I", "J", "K", "L", "M", "N", "O", "P", "Q", "R", "S", "T", "U", "V", "W", "X", "Y", "Z">>

LowerLetters == <<"a", "b", "c", "d", "e", "f", "g", "h", "i", "j", "k", "l", "m", "n", "o", "p", "q", "r", "s", "t", "u", "v", "w", "x", "y", "z">>

Digits == {"0", "1", "2", "3", "4", "5", "6", "7", "8", "9"}

Letters == Range(UpperLetters) \cup Range(LowerLetters)

\* \w and \s
WordChars == Letters \cup Digits \cup {"_"}

Spaces == {" ", "\n"}

ToLower == [c \in Range(UpperLetters) |->
               LowerLetters[CHOOSE k \in 1..Len(UpperLetters) : UpperLetters[k] = c]]

ToUpper == [c \in Range(LowerLetters) |->
               UpperLetters[CHOOSE k \in 1..Len(LowerLetters) : LowerLetters[k] = c]]

lower_char(c) == IF c \in DOMAIN ToLower THEN ToLower[c] ELSE c

upper_char(c) == IF c \in DOMAIN ToUpper THEN ToUpper[c] ELSE c

\* str.lower(), str.upper()
lower(s) == [k \in 1..Len(s) |-> lower_char(s[k])]

upper(s) == [k \in 1..Len(s) |-> upper_char(s[k])]

\* the first position at or after i whose character is not in cls
RECURSIVE RunEnd(_, _, _)
RunEnd(s, i, cls) == IF i <= Len(s) /\ s[i] \in cls THEN RunEnd(s, i + 1, cls) ELSE i

\* s[i:j] of Python, on 1-based positions i..j-1
Slice(s, i, j) == SubSeq(s, i, j - 1)

\* s starts with w at position i, ignoring case
StartsWithCI(s, i, w) ==
    i + Len(w) - 1 <= Len(s) /\ lower(Slice(s, i, i + Len(w))) = w

\* \b before position i and after position j - 1, both next to a word character
BoundaryBefore(s, i) == i = 1 \/ s[i - 1] \notin WordChars

BoundaryAfter(s, j) == j > Len(s) \/ s[j] \notin WordChars

\* the maximal runs of characters of cls, left to right
RECURSIVE Runs(_, _, _)
Runs(s, i, cls) ==
    IF i > Len(s) THEN <<>>
    ELSE IF s[i] \in cls
         THEN LET j == RunEnd(s, i, cls)
              IN  <<Slice(s, i, j)>> \o Runs(s, j, cls)
         ELSE Runs(s, i + 1, cls)

Words(s, i) == Runs(s, i, WordChars)

RECURSIVE SelectSeq2(_, _)
SelectSeq2(seq, keep) ==
    IF seq = <<>> THEN <<>>
    ELSE (IF Head(seq) \in keep THEN <<Head(seq)>> ELSE <<>>) \o SelectSeq2(Tail(seq), keep)

IsYear(w) ==
    Len(w) = 4 /\ w[1] = "2" /\ w[2] = "0" /\ w[3] \in Digits /\ w[4] \in Digits

\* r'\b(20\d{2})\b'
FindYears(s) ==
    LET ws == Words(s, 1) IN SelectSeq2(ws, {w \in Range(ws) : IsYear(w)})

\* the end of a match of r'\b(Q[1-4]|quarter\s*[1-4])\b' at i, or 0
QuarterEnd(s, i) ==
    IF ~(BoundaryBefore(s, i))
    THEN 0
    ELSE IF /\ i + 1 <= Len(s) /\ lower_char(s[i]) = "q"
            /\ s[i + 1] \in {"1", "2", "3", "4"} /\ BoundaryAfter(s, i + 2)
         THEN i + 2
         ELSE IF StartsWithCI(s, i, <<"q", "u", "a", "r", "t", "e", "r">>)
              THEN LET j == RunEnd(s, i + 7, Spaces)
                   IN  IF j <= Len(s) /\ s[j] \in {"1", "2", "3", "4"}
                          /\ BoundaryAfter(s, j + 1)
                       THEN j + 1 ELSE 0
              ELSE 0

RECURSIVE FindQuarters(_, _)
FindQuarters(s, i) ==
    IF i > Len(s) THEN <<>>
    ELSE LET e == QuarterEnd(s, i)
         IN  IF e > 0 THEN <<Slice(s, i, e)>> \o FindQuarters(s, e)
             ELSE FindQuarters(s, i + 1)

MonthNames ==
    {<<"j", "a", "n">>, <<"f", "e", "b">>, <<"m", "a", "r">>, <<"a", "p", "r">>,
     <<"m", "a", "y">>, <<"j", "u", "n">>, <<"j", "u", "l">>, <<"a", "u", "g">>,
     <<"s", "e", "p">>, <<"o", "c", "t">>, <<"n", "o", "v">>, <<"d", "e", "c">>}

\* the end of a match of r'\b(Jan|...|Dec)[a-z]*\s+20\d{2}\b' at i, or 0
MonthEnd(s, i) ==
    IF ~(BoundaryBefore(s, i) /\ i + 2 <= Len(s)
         /\ lower(Slice(s, i, i + 3)) \in MonthNames)
    THEN 0
    ELSE LET j == RunEnd(s, i + 3, Letters)
             k == RunEnd(s, j, Spaces)
         IN  IF k > j /\ k + 3 <= Len(s) /\ IsYear(Slice(s, k, k + 4))
                /\ BoundaryAfter(s, k + 4)
             THEN k + 4 ELSE 0

\* findall returns the group: the three letters of the month
RECURSIVE FindMonths(_, _)
FindMonths(s, i) ==
    IF i > Len(s) THEN <<>>
    ELSE LET e == MonthEnd(s, i)
         IN  IF e > 0 THEN <<Slice(s, i, i + 3)>> \o FindMonths(s, e)
             ELSE FindMonths(s, i + 1)

\* MultiPassRetriever._extract_time_hints
_extract_time_hints(query) ==
    FindYears(query) \o FindQuarters(query, 1) \o FindMonths(query, 1)

\* MultiPassRetriever._period_matches
_period_matches(period, time_hints) ==
    \E k \in 1..Len(time_hints) : Contains(lower(period), lower(time_hints[k]))

IsPan(w) ==
    /\ Len(w) = 10
    /\ \A k \in 1..5 : w[k] \in Range(UpperLetters)
    /\ \A k \in 6..9 : w[k] \in Digits
    /\ w[10] \in Range(UpperLetters)

IsGstin(w) ==
    Len(w) = 15 /\ \A k \in 1..15 : w[k] \in Digits \cup Range(UpperLetters)

\* re.findall(r'\b([A-Z]{5}\d{4}[A-Z])\b', query.upper())
FindPans(query) ==
    LET ws == Words(upper(query), 1) IN SelectSeq2(ws, {w \in Range(ws) : IsPan(w)})

\* re.findall(r'\b([0-9A-Z]{15})\b', query.upper())
FindGstins(query) ==
    LET ws == Words(upper(query), 1) IN SelectSeq2(ws, {w \in Range(ws) : IsGstin(w)})

InvoiceChars == Letters \cup Digits \cup {"-", "/"}

\* the span [from, to) of the group of
\* r'(?:invoice|bill)[\s#]*:?\s*([A-Z0-9\-/]+)' (IGNORECASE) matched at i, or 0
InvoiceGroup(s, i) ==
    LET kw == IF StartsWithCI(s, i, <<"i", "n", "v", "o", "i", "c", "e">>) THEN 7
              ELSE IF StartsWithCI(s, i, <<"b", "i", "l", "l">>) THEN 4 ELSE 0
        a == RunEnd(s, i + kw, Spaces \cup {"#"})
        b == IF a <= Len(s) /\ s[a] = ":" THEN a + 1 ELSE a
        c == RunEnd(s, b, Spaces)
        e == RunEnd(s, c, InvoiceChars)
    IN  IF kw > 0 /\ e > c THEN [from |-> c, to |-> e] ELSE [from |-> 0, to |-> 0]

RECURSIVE FindInvoices(_, _)
FindInvoices(s, i) ==
    IF i > Len(s) THEN <<>>
    ELSE LET g == InvoiceGroup(s, i)
         IN  IF g.to > 0 THEN <<Slice(s, g.from, g.to)>> \o FindInvoices(s, g.to)
             ELSE FindInvoices(s, i + 1)

\* MultiPassRetriever._has_entity_matches
_has_entity_matches(query, result) ==
    LET metadata == Get(result, "metadata", <<>>)
        entities == Get(metadata, "entities", <<>>)
        UpperAll(list) == {upper(list[k]) : k \in 1..Len(list)}
        pans == FindPans(query)
        gstins == FindGstins(query)
        invoices == FindInvoices(query, 1)
    IN  \/ Range(pans) \cap UpperAll(Get(entities, "pan_numbers", <<>>)) # {}
        \/ Range(gstins) \cap UpperAll(Get(entities, "gstin_numbers", <<>>)) # {}
        \/ Range(invoices) \cap UpperAll(Get(entities, "invoice_numbers", <<>>)) # {}

VendorChars == Letters \cup Spaces \cup {"&"}

\* the group of r'(?:from|vendor|supplier)[\s]*:?\s*([A-Z][A-Za-z\s&]{2,30})'
\* (IGNORECASE) matched at i, as a span [from, to), or 0
VendorGroup(s, i) ==
    LET kw == IF StartsWithCI(s, i, <<"f", "r", "o", "m">>) THEN 4
              ELSE IF StartsWithCI(s, i, <<"v", "e", "n", "d", "o", "r">>) THEN 6
              ELSE IF StartsWithCI(s, i, <<"s", "u", "p", "p", "l", "i", "e", "r">>)
                   THEN 8 ELSE 0
        a == RunEnd(s, i + kw, Spaces)
        b == IF a <= Len(s) /\ s[a] = ":" THEN a + 1 ELSE a
        c == RunEnd(s, b, Spaces)
        r == RunEnd(s, c + 1, VendorChars)
        e == IF r > c + 31 THEN c + 31 ELSE r
    IN  IF kw > 0 /\ c <= Len(s) /\ s[c] \in Letters /\ e >= c + 3
        THEN [from |-> c, to |-> e] ELSE [from |-> 0, to |-> 0]

\* MultiPassRetriever._extract_vendor_from_text: re.search, group(1).strip(),
\* or None
RECURSIVE _extract_vendor_from_text(_, _)
_extract_vendor_from_text(text, i) ==
    IF i > Len(text) THEN <<>>
    ELSE LET g == VendorGroup(text, i)
         IN  IF g.to > 0 THEN strip(Slice(text, g.from, g.to))
             ELSE _extract_vendor_from_text(text, i + 1)

----------------------------------------------------------------------------
(* SQL statements of VectorStorage, each executed and committed on its own *)

Rowids(rows) == {r.rowid : r \in rows}

\* the rowid SQLite gives a new row of a table without AUTOINCREMENT
NewRowid(rows) == IF rows = {} THEN 1 ELSE SetMax(Rowids(rows)) + 1

\* json.dumps(metadata) if metadata else None
metadata_json(metadata) == IF DOMAIN metadata = {} THEN NoneDict ELSE metadata

\* INSERT INTO document_chunks (id, document_id, chunk_index, text, embedding, metadata)
InsertChunk(rows, chunk_id, document_id, chunk_index, text, embedding, metadata) ==
    rows \cup {[rowid |-> NewRowid(rows), id |-> chunk_id,
                document_id |-> document_id, chunk_index |-> chunk_index,
                text |-> text, embedding |-> embedding,
                metadata |-> metadata_json(metadata)]}

\* a lookup that takes the newest rowid of the table, whichever row it belongs to
SelectMaxRowid(rows, chunk_id) ==
    IF rows = {} THEN None ELSE SetMax(Rowids(rows))

\* SELECT rowid FROM document_chunks WHERE id = ?   (row[0] if row else None)
SelectRowid(rows, chunk_id) ==
    IF \E r \in rows : r.id = chunk_id
    THEN (CHOOSE r \in rows : r.id = chunk_id).rowid
    ELSE None

FtsRowids(fts) == {e.rowid : e \in fts}

\* INSERT INTO document_fts (rowid, text) VALUES (?, ?), the rowid being free
InsertFts(fts, rowid, text) == fts \cup {[rowid |-> rowid, text |-> text]}

\* the same statement replacing the entry that holds the rowid
ReplaceFts(fts, rowid, text) ==
    {e \in fts : e.rowid # rowid} \cup {[rowid |-> rowid, text |-> text]}

\* SELECT rowid FROM document_chunks WHERE document_id = ?
SelectDocumentRowids(rows, document_id) ==
    SortedSeq({r.rowid : r \in {x \in rows : x.document_id = document_id}})

\* a delete that removes no row
KeepChunks(rows, document_id) == rows

\* DELETE FROM document_chunks WHERE document_id = ?
DeleteChunks(rows, document_id) == {r \in rows : r.document_id # document_id}

\* DELETE FROM document_fts WHERE rowid = ?
DeleteFts(fts, rowid) == {e \in fts : e.rowid # rowid}

\* DatabaseManager.execute: "database is locked" is retried until the attempts
\* are used up, any other error is raised at once
execute_raises(locked_attempts, other_error) ==
    other_error \/ locked_attempts >= max_retries

----------------------------------------------------------------------------
(* Tasks: one coroutine each, suspended at the awaits of its storage calls *)

IdleTask ==
    [op |-> "none", pc |-> "idle", doc |-> "A", batch |-> <<>>, i |-> 0,
     chunk_id |-> None, chunk_rowid |-> None, chunk_ids |-> <<>>,
     chunk_rowids |-> <<>>, retry_count |-> 0, calls |-> 0]

Running(t) == task[t].pc \notin {"idle", "done", "raised"}

Calls == task["t1"].calls + task["t2"].calls

CanCall(t) == ~Running(t) /\ Calls < MaxCalls

\* the local variables of a call as it starts
Frame(t, op, pc, d, batch) ==
    [op |-> op, pc |-> pc, doc |-> d, batch |-> batch, i |-> 1,
     chunk_id |-> None, chunk_rowid |-> None, chunk_ids |-> <<>>,
     chunk_rowids |-> <<>>, retry_count |-> 0, calls |-> task[t].calls + 1]

\* store_chunks_batch: zip(chunks, embeddings), chunk.get("chunk_index", i)
zip_batch(chunks, embeddings) ==
    LET n == IF Len(chunks) <= Len(embeddings) THEN Len(chunks) ELSE Len(embeddings)
    IN  [k \in 1..n |->
            [chunk_index |-> Get(chunks[k], "chunk_index", k - 1),
             text |-> chunks[k].text,
             embedding |-> embeddings[k],
             metadata |-> Get(chunks[k], "metadata", <<>>)]]

\* index_document up to its call of store_chunks_batch
IndexBatch(d, text, document_metadata) ==
    LET chunks == chunk_document(d, text, document_metadata)
    IN  zip_batch(chunks, generate_batch([k \in 1..Len(chunks) |-> chunks[k].text]))

\* where an exception raised inside the call goes
Propagate(tk) ==
    IF tk.op = "process_document_task" /\ tk.pc # "update_failed"
    THEN IF tk.retry_count + 1 < max_retries
         THEN [tk EXCEPT !.retry_count = @ + 1, !.pc = "update_processing"]
         ELSE [tk EXCEPT !.retry_count = @ + 1, !.pc = "update_failed"]
    ELSE [tk EXCEPT !.pc = "raised"]

\* store_chunk has returned its chunk id to the caller's loop
AfterChunk(tk) ==
    LET ids == Append(tk.chunk_ids, tk.chunk_id)
    IN  IF tk.op # "store_chunk" /\ tk.i < Len(tk.batch)
        THEN [tk EXCEPT !.chunk_ids = ids, !.i = @ + 1, !.pc = "insert_chunk"]
        ELSE [tk EXCEPT !.chunk_ids = ids,
                        !.pc = IF tk.op = "process_document_task"
                               THEN "update_indexed" ELSE "done"]

\* index_document entered with the chunks of the document
EnterIndex(tk, batch) ==
    IF batch = <<>>
    THEN [tk EXCEPT !.batch = batch,
                    !.pc = IF tk.op = "process_document_task"
                           THEN "update_indexed" ELSE "done"]
    ELSE [tk EXCEPT !.batch = batch, !.i = 1, !.chunk_ids = <<>>,
                    !.chunk_id = None, !.chunk_rowid = None, !.pc = "insert_chunk"]

\* delete_document_chunks has returned
AfterDelete(tk) ==
    IF tk.op = "reindex_document"
    THEN EnterIndex(tk, IndexBatch(tk.doc, DocText(tk.doc), DocumentMetadata(tk.doc)))
    ELSE [tk EXCEPT !.pc = "done"]

\* the in-memory state of the retrieval side, which no storage call touches
retrieval_vars == <<cache, time, returned, searches>>

UnchangedStore ==
    UNCHANGED <<document_chunks, document_fts, doc_status, next_uuid, faults,
                retrieval_vars>>

(* calls *)

store_chunk(t) ==
    /\ CanCall(t)
    /\ \E d \in DocsOf(t) :
         LET batch == IndexBatch(d, DocText(d), DocumentMetadata(d))
         IN  \E k \in 1..Len(batch) :
               task' = [task EXCEPT ![t] =
                           Frame(t, "store_chunk", "insert_chunk", d, <<batch[k]>>)]
    /\ UnchangedStore

store_chunks_batch(t) ==
    /\ CanCall(t)
    /\ \E d \in DocsOf(t) :
         LET batch == IndexBatch(d, DocText(d), DocumentMetadata(d))
         IN  task' = [task EXCEPT ![t] =
                         IF batch = <<>>
                         THEN Frame(t, "store_chunks_batch", "done", d, batch)
                         ELSE Frame(t, "store_chunks_batch", "insert_chunk", d, batch)]
    /\ UnchangedStore

delete_document_chunks(t) ==
    /\ CanCall(t)
    /\ \E d \in DocsOf(t) :
         task' = [task EXCEPT ![t] =
                     Frame(t, "delete_document_chunks", "select_rowids", d, <<>>)]
    /\ UnchangedStore

index_document(t) ==
    /\ CanCall(t)
    /\ \E d \in DocsOf(t) :
         task' = [task EXCEPT ![t] =
                     EnterIndex(Frame(t, "index_document", "insert_chunk", d, <<>>),
                                IndexBatch(d, DocText(d), DocumentMetadata(d)))]
    /\ UnchangedStore

reindex_document(t) ==
    /\ CanCall(t)
    /\ \E d \in DocsOf(t) :
         task' = [task EXCEPT ![t] =
                     Frame(t, "reindex_document", "select_rowids", d, <<>>)]
    /\ UnchangedStore

process_document_task(t) ==
    /\ CanCall(t)
    /\ \E d \in DocsOf(t) :
         task' = [task EXCEPT ![t] =
                     Frame(t, "process_document_task", "update_processing", d, <<>>)]
    /\ UnchangedStore

(* steps of VectorStorage.store_chunk *)

\* await db.execute(INSERT INTO document_chunks ...)
ExecInsertChunk(t) ==
    LET tk == task[t]
        c == tk.batch[tk.i]
    IN  /\ tk.pc = "insert_chunk"
        /\ document_chunks' = InsertChunk(document_chunks, next_uuid, tk.doc,
                                          c.chunk_index, c.text, c.embedding, c.metadata)
        /\ next_uuid' = next_uuid + 1
        /\ task' = [task EXCEPT ![t] = [tk EXCEPT !.chunk_id = next_uuid,
                                                  !.pc = "select_rowid"]]
        /\ UNCHANGED <<document_fts, doc_status, faults, retrieval_vars>>

\* await db.fetchone(SELECT rowid ...); `if chunk_rowid:` skips the FTS insert
FetchRowid(t) ==
    LET tk == task[t]
        rowid == SelectRowid(document_chunks, tk.chunk_id)
    IN  /\ tk.pc = "select_rowid"
        /\ task' = [task EXCEPT ![t] =
                       IF rowid = None
                       THEN AfterChunk([tk EXCEPT !.chunk_rowid = rowid])
                       ELSE [tk EXCEPT !.chunk_rowid = rowid, !.pc = "insert_fts"]]
        /\ UnchangedStore

\* await db.execute(INSERT INTO document_fts ...), the rowid being free
ExecInsertFts(t) ==
    LET tk == task[t]
    IN  /\ tk.pc = "insert_fts"
        /\ tk.chunk_rowid \notin FtsRowids(document_fts)
        /\ document_fts' = InsertFts(document_fts, tk.chunk_rowid, tk.batch[tk.i].text)
        /\ task' = [task EXCEPT ![t] = AfterChunk(tk)]
        /\ UNCHANGED <<document_chunks, doc_status, next_uuid, faults, retrieval_vars>>

\* the same statement when document_fts already holds the rowid: the table's
\* declaration, which the code does not show, decides between a constraint
\* error and the entry being replaced
ExecInsertFtsConflict(t) ==
    LET tk == task[t]
    IN  /\ tk.pc = "insert_fts"
        /\ tk.chunk_rowid \in FtsRowids(document_fts)
        /\ \/ /\ task' = [task EXCEPT ![t] = Propagate(tk)]
              /\ UNCHANGED document_fts
           \/ /\ document_fts' = ReplaceFts(document_fts, tk.chunk_rowid,
                                            tk.batch[tk.i].text)
              /\ task' = [task EXCEPT ![t] = AfterChunk(tk)]
        /\ UNCHANGED <<document_chunks, doc_status, next_uuid, faults, retrieval_vars>>

(* steps of VectorStorage.delete_document_chunks *)

\* await db.fetchall(SELECT rowid ... WHERE document_id = ?)
FetchDocumentRowids(t) ==
    LET tk == task[t]
    IN  /\ tk.pc = "select_rowids"
        /\ task' = [task EXCEPT ![t] =
                       [tk EXCEPT !.chunk_rowids =
                                     SelectDocumentRowids(document_chunks, tk.doc),
                                  !.i = 1, !.pc = "delete_chunks"]]
        /\ UnchangedStore

\* await db.execute(DELETE FROM document_chunks WHERE document_id = ?)
ExecDeleteChunks(t) ==
    LET tk == task[t]
    IN  /\ tk.pc = "delete_chunks"
        /\ document_chunks' = DeleteChunks(document_chunks, tk.doc)
        /\ task' = [task EXCEPT ![t] =
                       IF tk.chunk_rowids = <<>>
                       THEN AfterDelete(tk)
                       ELSE [tk EXCEPT !.i = 1, !.pc = "delete_fts"]]
        /\ UNCHANGED <<document_fts, doc_status, next_uuid, faults, retrieval_vars>>

\* for row in chunk_rowids: await db.execute(DELETE FROM document_fts WHERE rowid = ?)
ExecDeleteFts(t) ==
    LET tk == task[t]
    IN  /\ tk.pc = "delete_fts"
        /\ document_fts' = DeleteFts(document_fts, tk.chunk_rowids[tk.i])
        /\ task' = [task EXCEPT ![t] =
                       IF tk.i < Len(tk.chunk_rowids)
                       THEN [tk EXCEPT !.i = @ + 1]
                       ELSE AfterDelete(tk)]
        /\ UNCHANGED <<document_chunks, doc_status, next_uuid, faults, retrieval_vars>>

(* steps of process_document_task *)

min_text_length == 10

\* await db_manager.execute(UPDATE documents SET status = 'processing' ...)
ExecUpdateProcessing(t) ==
    LET tk == task[t]
    IN  /\ tk.pc = "update_processing"
        /\ doc_status' = [doc_status EXCEPT ![tk.doc] = "processing"]
        /\ task' = [task EXCEPT ![t] = [tk EXCEPT !.pc = "extract"]]
        /\ UNCHANGED <<document_chunks, document_fts, next_uuid, faults, retrieval_vars>>

\* text extraction, the ValueError for too little text, and the entry into
\* index_document
ExtractText(t) ==
    LET tk == task[t]
        text == DocText(tk.doc)
    IN  /\ tk.pc = "extract"
        /\ task' = [task EXCEPT ![t] =
                       IF text = <<>> \/ Len(strip(text)) < min_text_length
                       THEN Propagate(tk)
                       ELSE EnterIndex(tk, IndexBatch(tk.doc, text,
                                                      DocumentMetadata(tk.doc)))]
        /\ UnchangedStore

\* await db_manager.execute(UPDATE documents SET status = 'indexed' ...)
ExecUpdateIndexed(t) ==
    LET tk == task[t]
    IN  /\ tk.pc = "update_indexed"
        /\ doc_status' = [doc_status EXCEPT ![tk.doc] = "indexed"]
        /\ task' = [task EXCEPT ![t] = [tk EXCEPT !.pc = "done"]]
        /\ UNCHANGED <<document_chunks, document_fts, next_uuid, faults, retrieval_vars>>

\* all retries exhausted: UPDATE documents SET status = 'failed', then raise
ExecUpdateFailed(t) ==
    LET tk == task[t]
    IN  /\ tk.pc = "update_failed"
        /\ doc_status' = [doc_status EXCEPT ![tk.doc] = "failed"]
        /\ task' = [task EXCEPT ![t] = [tk EXCEPT !.pc = "raised"]]
        /\ UNCHANGED <<document_chunks, document_fts, next_uuid, faults, retrieval_vars>>

(* a storage call raises: the statement has no effect and the exception
   leaves DatabaseManager.execute / fetchone / fetchall *)

StoragePcs ==
    {"insert_chunk", "select_rowid", "insert_fts", "select_rowids", "delete_chunks",
     "delete_fts", "update_processing", "update_indexed", "update_failed"}

StorageError(t) ==
    /\ task[t].pc \in StoragePcs
    /\ faults["t1"] + faults["t2"] < MaxFaults
    /\ \E locked_attempts \in 0..max_retries, other_error \in BOOLEAN :
         execute_raises(locked_attempts, other_error)
    /\ faults' = [faults EXCEPT ![t] = @ + 1]
    /\ task' = [task EXCEPT ![t] = Propagate(task[t])]
    /\ UNCHANGED <<document_chunks, document_fts, doc_status, next_uuid, retrieval_vars>>

----------------------------------------------------------------------------
(* The indexing system: every call, every interleaving, storage errors *)

\* the tables after store_chunks_batch has stored a batch without interruption
RECURSIVE StoreAll(_, _, _)
StoreAll(db, d, batch) ==
    IF batch = <<>> THEN db
    ELSE LET c == Head(batch)
             rows == InsertChunk(db.chunks, db.uuid, d, c.chunk_index, c.text,
                                 c.embedding, c.metadata)
             rowid == SelectRowid(rows, db.uuid)
         IN  StoreAll([chunks |-> rows,
                       fts |-> InsertFts(db.fts, rowid, c.text),
                       uuid |-> db.uuid + 1],
                      d, Tail(batch))

EmptyStore == [chunks |-> {}, fts |-> {}, uuid |-> 1]

\* the store is new, or document A has been indexed before
InitialStores ==
    {EmptyStore,
     StoreAll(EmptyStore, "A", IndexBatch("A", DocText("A"), DocumentMetadata("A")))}

\* the process has just started: nothing cached, nothing searched
NoCall == [call |-> "none"]

InitRetrieval ==
    /\ cache = <<>>
    /\ time = 0
    /\ returned = NoCall
    /\ searches = 0

Init ==
    /\ \E db \in InitialStores :
         /\ document_chunks = db.chunks
         /\ document_fts = db.fts
         /\ next_uuid = db.uuid
    /\ doc_status = [d \in Docs |-> "pending"]
    /\ task = [t \in Tasks |-> IdleTask]
    /\ faults = [t \in Tasks |-> 0]
    /\ InitRetrieval

Step(t) ==
    \/ ExecInsertChunk(t)
    \/ FetchRowid(t)
    \/ ExecInsertFts(t)
    \/ ExecInsertFtsConflict(t)
    \/ FetchDocumentRowids(t)
    \/ ExecDeleteChunks(t)
    \/ ExecDeleteFts(t)
    \/ ExecUpdateProcessing(t)
    \/ ExtractText(t)
    \/ ExecUpdateIndexed(t)
    \/ ExecUpdateFailed(t)

Next ==
    \E t \in Tasks :
        \/ store_chunk(t)
        \/ store_chunks_batch(t)
        \/ delete_document_chunks(t)
        \/ index_document(t)
        \/ reindex_document(t)
        \/ process_document_task(t)
        \/ Step(t)
        \/ StorageError(t)

Spec == Init /\ [][Next]_vars

\* the calls of DocumentIndexer and process_document_task only
NextIndexing ==
    \E t \in Tasks :
        \/ delete_document_chunks(t)
        \/ index_document(t)
        \/ reindex_document(t)
        \/ process_document_task(t)
        \/ Step(t)
        \/ StorageError(t)

SpecIndexing == Init /\ [][NextIndexing]_vars

\* store_chunks_batch calls alone, interleaved at every await, no storage error
InitBatch ==
    /\ \E db \in {EmptyStore,
                  StoreAll(EmptyStore, "C",
                           IndexBatch("C", DocText("C"), DocumentMetadata("C")))} :
         /\ document_chunks = db.chunks
         /\ document_fts = db.fts
         /\ next_uuid = db.uuid
    /\ doc_status = [d \in Docs |-> "pending"]
    /\ task = [t \in Tasks |-> IdleTask]
    /\ faults = [t \in Tasks |-> 0]
    /\ InitRetrieval

NextBatch ==
    \E t \in Tasks :
        \/ store_chunks_batch(t)
        \/ ExecInsertChunk(t)
        \/ FetchRowid(t)
        \/ ExecInsertFts(t)

SpecBatch == InitBatch /\ [][NextBatch]_vars

----------------------------------------------------------------------------
(* Scores: exact fractions [n, d] in lowest terms with d > 0 *)

Abs(x) == IF x < 0 THEN -x ELSE x

RECURSIVE GCD(_, _)
GCD(a, b) == IF b = 0 THEN a ELSE GCD(b, a % b)

Rat(n, d) ==
    IF n = 0 THEN [n |-> 0, d |-> 1]
    ELSE LET g == GCD(Abs(n), d)
         IN  IF n > 0 THEN [n |-> n \div g, d |-> d \div g]
             ELSE [n |-> -(Abs(n) \div g), d |-> d \div g]

RatLess(a, b) == a.n * b.d < b.n * a.d

RatAdd(a, b) == Rat(a.n * b.d + b.n * a.d, a.d * b.d)

RatSub(a, b) == Rat(a.n * b.d - b.n * a.d, a.d * b.d)

RatMul(a, b) == Rat(a.n * b.n, a.d * b.d)

\* a / b for b # 0
RatDiv(a, b) ==
    IF b.n > 0 THEN Rat(a.n * b.d, a.d * b.n) ELSE Rat(-(a.n * b.d), a.d * Abs(b.n))

RatMax(set) == CHOOSE x \in set : \A y \in set : ~RatLess(x, y)

RatMin(set) == CHOOSE x \in set : \A y \in set : ~RatLess(y, x)

\* list.sort(reverse=True) and sorted(reverse=True): stable, larger keys first
SortDesc(seq, keys) ==
    LET n == Len(seq)
        Before(j, i) == RatLess(keys[i], keys[j]) \/ (keys[j] = keys[i] /\ j < i)
        pos(i) == Cardinality({j \in 1..n : Before(j, i)}) + 1
    IN  [q \in 1..n |-> seq[CHOOSE i \in 1..n : pos(i) = q]]

\* ORDER BY: smaller keys first, rows of equal keys in the order of the scan
SortAsc(seq, keys) ==
    LET n == Len(seq)
        Before(j, i) == RatLess(keys[j], keys[i]) \/ (keys[j] = keys[i] /\ j < i)
        pos(i) == Cardinality({j \in 1..n : Before(j, i)}) + 1
    IN  [q \in 1..n |-> seq[CHOOSE i \in 1..n : pos(i) = q]]

\* seq[:n] of Python
Take(seq, n) ==
    IF n >= 0 THEN SubSeq(seq, 1, IF n < Len(seq) THEN n ELSE Len(seq))
    ELSE SubSeq(seq, 1, Len(seq) + n)

\* a query without its LIMIT clause
NoLimit(seq, n) == seq

\* LIMIT n of SQLite: a negative n is no limit
SqlLimit(seq, n) == IF n < 0 THEN seq ELSE Take(seq, n)

RECURSIVE dot(_, _)
dot(vec1, vec2) ==
    IF vec1 = <<>> THEN 0
    ELSE IF Len(vec1) = 1 THEN vec1[1] * vec2[1]
    ELSE LET half == Len(vec1) \div 2
         IN  dot(SubSeq(vec1, 1, half), SubSeq(vec2, 1, half))
                 + dot(SubSeq(vec1, half + 1, Len(vec1)), SubSeq(vec2, half + 1, Len(vec1)))

\* the integer part of the square root
Isqrt(n) == CHOOSE r \in 0..n : r * r <= n /\ n < (r + 1) * (r + 1)

\* np.linalg.norm, exact on the vectors of the model, whose norms are integers
norm(vec) == Isqrt(dot(vec, vec))

\* a similarity that takes a vector without direction for a perfect match
CosineZeroAsOne(vec1, vec2) ==
    IF norm(vec1) = 0 \/ norm(vec2) = 0 THEN Rat(1, 1)
    ELSE Rat(dot(vec1, vec2), norm(vec1) * norm(vec2))

\* cosine_similarity
cosine_similarity(vec1, vec2) ==
    LET dot_product == dot(vec1, vec2)
        norm1 == norm(vec1)
        norm2 == norm(vec2)
    IN  IF norm1 = 0 \/ norm2 = 0 THEN Rat(0, 1)
        ELSE Rat(dot_product, norm1 * norm2)

----------------------------------------------------------------------------
(* The documents table and the chunks the searches run over *)

Clients == {"c1", "c2"}

CorpusDocs == {"D1", "D2", "D3"}

\* the documents that get deleted; D3 is the other client's and stays
Deletable == {"D1", "D2"}

\* the row of table documents a chunk row is joined with
documents(d) ==
    CASE d = "D1" -> [client_id |-> "c1", period |-> <<"2", "0", "2", "4", "-", "0", "4">>,
                      category |-> "purchase", doc_type |-> "invoice"]
      [] d = "D2" -> [client_id |-> "c1", period |-> <<"2", "0", "2", "3", "-", "0", "4">>,
                      category |-> "bank", doc_type |-> "statement"]
      [] d = "D3" -> [client_id |-> "c2", period |-> <<"2", "0", "2", "4", "-", "0", "4">>,
                      category |-> "purchase", doc_type |-> "invoice"]
      [] d = "D4" -> [client_id |-> "c1", period |-> <<>>,
                      category |-> "purchase", doc_type |-> "invoice"]
      [] d = "D5" -> [client_id |-> "c1", period |-> <<"2", "0", "2", "4", "-", "0", "4">>,
                      category |-> "purchase", doc_type |-> "invoice"]
      [] d = "D6" -> [client_id |-> "c1", period |-> <<"2", "0", "2", "4", "-", "0", "5">>,
                      category |-> "purchase", doc_type |-> "ledger"]
      [] d = "D7" -> [client_id |-> "c1", period |-> <<"2", "0", "2", "4", "-", "0", "6">>,
                      category |-> "bank", doc_type |-> "statement"]
      [] OTHER    -> [client_id |-> "c1", period |-> <<>>,
                      category |-> "", doc_type |-> ""]

Gstin == <<"2", "7", "A", "B", "C", "D", "E", "1", "2", "3", "4", "F", "1", "Z", "5">>

\* the chunks of each document as store_chunks_batch receives them
CorpusChunks(d) ==
    CASE d = "D1" ->
           <<[text |-> <<"i", "t", "e", "m", " ", "a", "m", "o", "u", "n", "t">>, chunk_index |-> 0,
              metadata |-> [chunk_type |-> "table_row", page |-> 1,
                            table_index |-> 1, row_index |-> 0]],
             [text |-> <<"A", "c", "m", "e", " ">> \o Gstin, chunk_index |-> 1,
              metadata |-> [chunk_type |-> "table_row", page |-> 1,
                            table_index |-> 1, row_index |-> 1,
                            vendor |-> <<"A", "c", "m", "e">>,
                            entities |-> [gstin_numbers |-> <<Gstin>>]]],
             [text |-> <<"t", "o", "t", "a", "l", " ">> \o Gstin, chunk_index |-> 2,
              metadata |-> [chunk_type |-> "page", page |-> 2,
                            entities |-> [gstin_numbers |-> <<Gstin>>]]]>>
      [] d = "D2" ->
           <<[text |-> <<"f", "r", "o", "m", " ", "A", "c", "m", "e">>, chunk_index |-> 0]>>
      [] d = "D4" ->
           <<[text |-> <<"A", "c", "m", "e", " ", "2", "0", "2", "3">>, chunk_index |-> 0,
              metadata |-> [chunk_type |-> "page", page |-> 1]]>>
      [] d = "D5" ->
           <<[text |-> <<"r", "e", "f", " ">> \o Gstin, chunk_index |-> 0,
              metadata |-> [chunk_type |-> "page", page |-> 1,
                            entities |-> [gstin_numbers |-> <<Gstin>>]]],
             [text |-> <<"s", "e", "e", " ">> \o Gstin, chunk_index |-> 1,
              metadata |-> [chunk_type |-> "paragraph", page |-> 2]]>>
      [] d = "D6" ->
           [k \in 1..4 |->
              [text |-> <<"a", "c", "m", "e", " ", <<"a", "b", "c", "d">>[k]>>,
               chunk_index |-> k - 1,
               metadata |-> [chunk_type |-> "page", page |-> k]]]
      [] d = "D7" ->
           <<[text |-> <<"n", "i", "l">>, chunk_index |-> 0,
              metadata |-> [chunk_type |-> "page", page |-> 1]],
             [text |-> <<"d", "u", "e">>, chunk_index |-> 1,
              metadata |-> [chunk_type |-> "page", page |-> 2]]>>
      [] OTHER ->
           <<[text |-> <<"A", "c", "m", "e", " ">> \o Gstin, chunk_index |-> 0,
              metadata |-> [chunk_type |-> "table_row", page |-> 1,
                            vendor |-> <<"A", "c", "m", "e">>,
                            entities |-> [gstin_numbers |-> <<Gstin>>]]]>>

\* and their embeddings
CorpusEmbeddings(d) ==
    CASE d = "D1" -> <<<<0, 1>>, <<3, 4>>, <<5, 12>>>>
      [] d = "D2" -> <<<<4, 3>>>>
      [] d = "D4" -> <<<<4, 3>>>>
      [] d = "D5" -> <<<<0, 1>>, <<0, 1>>>>
      [] d = "D6" -> <<<<0, 1>>, <<0, 1>>, <<0, 1>>, <<0, 1>>>>
      [] d = "D7" -> <<<<0, 0>>, <<-3, -4>>>>
      [] OTHER    -> <<<<3, 4>>>>

\* the questions asked, each with the embedding of its text
Queries ==
    {[query |-> Gstin, query_embedding |-> <<1, 0>>],
     [query |-> <<"a", "m", "o", "u", "n", "t", " ">> \o Gstin, query_embedding |-> <<1, 0>>],
     [query |-> <<"A", "c", "m", "e", " ", "2", "0", "2", "3">>, query_embedding |-> <<4, 3>>]}

\* filters=None and filters={} behave alike and are both the empty record
Filters == {<<>>, [doc_type |-> "invoice"]}

\* the rows of a table scan, in rowid order
RowSeq(rows) ==
    LET ids == SortedSeq(Rowids(rows))
    IN  [k \in 1..Len(ids) |-> CHOOSE r \in rows : r.rowid = ids[k]]

\* the WHERE conditions SemanticSearch.search builds from filters
SemanticFilter(r, filters) ==
    /\ "document_id" \in DOMAIN filters => r.document_id = filters.document_id
    /\ "client_id" \in DOMAIN filters => documents(r.document_id).client_id = filters.client_id
    /\ "period" \in DOMAIN filters => documents(r.document_id).period = filters.period
    /\ "category" \in DOMAIN filters => documents(r.document_id).category = filters.category

\* the columns every search selects from document_chunks and documents; a NULL
\* metadata column is read as None
ResultOf(r) ==
    [chunk_id |-> r.id, document_id |-> r.document_id, chunk_index |-> r.chunk_index,
     text |-> r.text, metadata |-> r.metadata,
     client_id |-> documents(r.document_id).client_id,
     period |-> documents(r.document_id).period,
     category |-> documents(r.document_id).category,
     doc_type |-> documents(r.document_id).doc_type]

\* SemanticSearch.search
SemanticSearch(rows, query_embedding, limit, threshold, filters) ==
    LET scan == RowSeq({r \in rows : SemanticFilter(r, filters)})
        with_embedding == SelectSeq(scan, LAMBDA r : r.embedding # <<>>)
        scored == [k \in 1..Len(with_embedding) |->
                      Update(ResultOf(with_embedding[k]),
                             [similarity |-> cosine_similarity(query_embedding,
                                                 with_embedding[k].embedding)])]
        results == SelectSeq(scored, LAMBDA x : ~RatLess(x.similarity, threshold))
    IN  Take(SortDesc(results, [k \in 1..Len(results) |-> results[k].similarity]), limit)

\* what the unicode61 tokenizer of FTS5 makes of a text
fts_tokens(text) == Runs(lower(text), 1, Letters \cup Digits)

\* the MATCH expression is a list of barewords, every one of which must occur;
\* any other character, and an expression without a word, is a syntax error
fts5_syntax_error(query) ==
    \/ \E k \in 1..Len(query) : query[k] \notin WordChars \cup Spaces
    \/ Words(query, 1) = <<>>

fts5_match(text, query) ==
    \A term \in Range(fts_tokens(query)) : term \in Range(fts_tokens(text))

\* bm25(document_fts): negative, lower for more occurrences of the terms and
\* for shorter texts
bm25(text, query) ==
    LET tokens == fts_tokens(text)
        terms == Range(fts_tokens(query))
        hits == Cardinality({k \in 1..Len(tokens) : tokens[k] \in terms})
    IN  Rat(Len(tokens) - 100 * hits, 1)

\* the WHERE conditions FullTextSearch.search builds from filters
FullTextFilter(r, filters) ==
    /\ "document_id" \in DOMAIN filters => r.document_id = filters.document_id
    /\ "client_id" \in DOMAIN filters => documents(r.document_id).client_id = filters.client_id
    /\ "period" \in DOMAIN filters => documents(r.document_id).period = filters.period

\* FullTextSearch.search, when the MATCH expression is well formed
FullTextSearch(rows, fts, query, limit, filters) ==
    LET joined == {[row |-> r, entry |-> e] : r \in rows, e \in fts}
        hits == {j \in joined : /\ j.entry.rowid = j.row.rowid
                                /\ fts5_match(j.entry.text, query)
                                /\ FullTextFilter(j.row, filters)}
        ids == SortedSeq({j.row.rowid : j \in hits})
        scan == [k \in 1..Len(ids) |-> CHOOSE j \in hits : j.row.rowid = ids[k]]
        ranked == [k \in 1..Len(scan) |->
                      Update(ResultOf(scan[k].row),
                             [rank |-> bm25(scan[k].entry.text, query)])]
    IN  SqlLimit(SortAsc(ranked, [k \in 1..Len(ranked) |-> ranked[k].rank]), limit)

\* HybridSearch.__init__: the weights, normalised to sum to one
semantic_weight == RatDiv(Rat(7, 10), RatAdd(Rat(7, 10), Rat(3, 10)))

\* the weights of HybridSearch(semantic_weight=0.5, keyword_weight=0.5)
EvenWeight == RatDiv(Rat(1, 2), RatAdd(Rat(1, 2), Rat(1, 2)))

\* the weight of the other engine in the place of the lexical one
SwappedWeight == RatDiv(Rat(7, 10), RatAdd(Rat(7, 10), Rat(3, 10)))

keyword_weight == RatDiv(Rat(3, 10), RatAdd(Rat(7, 10), Rat(3, 10)))

\* the entry of a result map ({r["chunk_id"]: r for r in results}): the last
\* result with the id
MapGet(results, chunk_id) ==
    results[SetMax({k \in 1..Len(results) : results[k].chunk_id = chunk_id})]

MapKeys(results) == {results[k].chunk_id : k \in 1..Len(results)}

\* HybridSearch.search up to the sort: the merged result of every chunk id
merged_results(semantic_results, keyword_results) ==
    LET similarities == {semantic_results[k].similarity : k \in 1..Len(semantic_results)}
        ranks == {keyword_results[k].rank : k \in 1..Len(keyword_results)}
        min_semantic == RatMin(similarities)
        semantic_range ==
            IF semantic_results # <<>> /\ RatMax(similarities) # min_semantic
            THEN RatSub(RatMax(similarities), min_semantic) ELSE Rat(1, 1)
        min_rank == RatMin(ranks)
        rank_range ==
            IF keyword_results # <<>> /\ RatMax(ranks) # min_rank
            THEN RatSub(RatMax(ranks), min_rank) ELSE Rat(1, 1)
        semantic_score(id) ==
            IF id \in MapKeys(semantic_results)
            THEN RatDiv(RatSub(MapGet(semantic_results, id).similarity, min_semantic),
                        semantic_range)
            ELSE Rat(0, 1)
        keyword_score(id) ==
            IF id \in MapKeys(keyword_results)
            THEN RatSub(Rat(1, 1),
                        RatDiv(RatSub(MapGet(keyword_results, id).rank, min_rank),
                               rank_range))
            ELSE Rat(0, 1)
    IN  [id \in MapKeys(semantic_results) \cup MapKeys(keyword_results) |->
            Update(IF id \in MapKeys(semantic_results)
                   THEN MapGet(semantic_results, id) ELSE MapGet(keyword_results, id),
                   [combined_score |-> RatAdd(RatMul(semantic_weight, semantic_score(id)),
                                              RatMul(keyword_weight, keyword_score(id))),
                    semantic_score |-> semantic_score(id),
                    keyword_score |-> keyword_score(id)])]

\* the orders in which a set of chunk ids can be iterated
RECURSIVE Orders(_)
Orders(ids) ==
    IF ids = {} THEN {<<>>}
    ELSE UNION {{<<x>> \o o : o \in Orders(ids \ {x})} : x \in ids}

\* HybridSearch.search: every outcome it can have, one for each order in which
\* the set all_chunk_ids is iterated; the full-text search raises on a
\* malformed MATCH expression
HybridSearch(rows, fts, query, query_embedding, limit, semantic_threshold, filters) ==
    IF fts5_syntax_error(query) THEN {[raised |-> TRUE, results |-> <<>>]}
    ELSE LET merged == merged_results(
                 SemanticSearch(rows, query_embedding, limit * 2,
                                semantic_threshold, filters),
                 FullTextSearch(rows, fts, query, limit * 2, filters))
         IN  {[raised |-> FALSE,
               results |-> Take(SortDesc([k \in 1..Len(o) |-> merged[o[k]]],
                                         [k \in 1..Len(o) |-> merged[o[k]].combined_score]),
                                limit)] : o \in Orders(DOMAIN merged)}

----------------------------------------------------------------------------
(* MultiPassRetriever *)

max_initial_results == 30

\* _pass_a_vector_search
_pass_a_vector_search(rows, fts, query, query_embedding, client_id, limit, filters) ==
    HybridSearch(rows, fts, query, query_embedding, limit, Rat(3, 10),
                 Update([client_id |-> client_id], filters))

PaymentWords ==
    {<<"p", "a", "y", "m", "e", "n", "t">>,
     <<"p", "a", "i", "d">>,
     <<"p", "a", "y">>,
     <<"t", "r", "a", "n", "s", "a", "c", "t", "i", "o", "n">>,
     <<"a", "m", "o", "u", "n", "t">>}

IsPaymentQuery(query) == \E word \in PaymentWords : Contains(lower(query), word)

\* the combined score, whether or not the result has a similarity
CombinedScoreOf(result) == Get(result, "combined_score", Rat(0, 1))

\* result.get("similarity", 0) or result.get("combined_score", 0)
SimilarityOf(result) ==
    IF Get(result, "similarity", Rat(0, 1)) # Rat(0, 1)
    THEN result.similarity
    ELSE Get(result, "combined_score", Rat(0, 1))

\* one round of the loop of _pass_b_filtering: the candidate is skipped
\* ("continue"), appended to filtered, or the round raises AttributeError on
\* the metadata None
PassBRound(result, query, filters, is_payment_query, time_hints) ==
    LET chunk_type == Get(result.metadata, "chunk_type", "")
    IN  IF "doc_type" \in DOMAIN filters /\ result.doc_type # filters.doc_type
        THEN "continue"
        ELSE IF /\ time_hints # <<>> /\ result.period # <<>>
                /\ ~_period_matches(result.period, time_hints)
        THEN "continue"
        ELSE IF is_payment_query /\ result.metadata = NoneDict
        THEN "raise"
        ELSE IF /\ is_payment_query
                /\ chunk_type \notin {"table_row", "invoice_block", "paragraph"}
                /\ ~Contains(lower(result.text), <<"p", "a", "y", "m", "e", "n", "t">>)
        THEN "continue"
        ELSE IF _has_entity_matches(query, result)
        THEN "append"
        ELSE IF ~RatLess(SimilarityOf(result), Rat(2, 5))
        THEN "append"
        ELSE "continue"

\* _pass_b_filtering
_pass_b_filtering(results, query, filters) ==
    LET is_payment_query == IsPaymentQuery(query)
        time_hints == _extract_time_hints(query)
        rounds == [k \in 1..Len(results) |->
                      PassBRound(results[k], query, filters, is_payment_query,
                                 time_hints)]
        kept == SortedSeq({k \in 1..Len(results) : rounds[k] = "append"})
        filtered == [k \in 1..Len(kept) |-> results[kept[k]]]
    IN  IF \E k \in 1..Len(results) : rounds[k] = "raise"
        THEN [raised |-> TRUE, results |-> <<>>]
        ELSE [raised |-> FALSE,
              results |-> SortDesc(filtered,
                                   [k \in 1..Len(filtered) |-> SimilarityOf(filtered[k])])]

\* the rows the helpers of Pass C select: a NULL metadata column is read as {}
ExpansionOf(r) ==
    [ResultOf(r) EXCEPT !.metadata = IF r.metadata = NoneDict THEN <<>> ELSE r.metadata]

OrderByChunkIndex(rows) ==
    LET scan == RowSeq(rows)
    IN  SortAsc(scan, [k \in 1..Len(scan) |-> Rat(scan[k].chunk_index, 1)])

\* _get_neighboring_chunks; the scalar subquery yields the id of the first row
\* of the document with the chunk index, and no row at all passes `!=` when
\* there is none
_get_neighboring_chunks(rows, document_id, chunk_index, page, client_id, window) ==
    LET own == {r \in rows : r.document_id = document_id /\ r.chunk_index = chunk_index}
        own_id == (CHOOSE r \in own : r.rowid = SetMin(Rowids(own))).id
        hits == {r \in rows :
                   /\ r.document_id = document_id
                   /\ documents(r.document_id).client_id = client_id
                   /\ Get(r.metadata, "page", None) = page
                   /\ chunk_index - window <= r.chunk_index
                   /\ r.chunk_index <= chunk_index + window
                   /\ own # {}
                   /\ r.id # own_id}
        selected == SqlLimit(OrderByChunkIndex(hits), window * 2)
    IN  [k \in 1..Len(selected) |-> ExpansionOf(selected[k])]

\* _get_table_headers
_get_table_headers(rows, document_id, table_index, client_id) ==
    LET hits == {r \in rows :
                   /\ r.document_id = document_id
                   /\ documents(r.document_id).client_id = client_id
                   /\ Get(r.metadata, "table_index", None) = table_index
                   /\ "row_index" \in DOMAIN r.metadata
                   /\ r.metadata.row_index = 0}
        selected == SqlLimit(RowSeq(hits), 1)
    IN  [k \in 1..Len(selected) |-> ExpansionOf(selected[k])]

\* _get_related_vendor_chunks; LIKE ignores the case of letters
_get_related_vendor_chunks(rows, vendor, document_id, client_id, limit) ==
    LET hits == {r \in rows :
                   /\ documents(r.document_id).client_id = client_id
                   /\ \/ Get(r.metadata, "vendor", <<>>) = vendor
                      \/ Contains(lower(r.text), lower(vendor))
                   /\ r.document_id # document_id}
        selected == SqlLimit(OrderByChunkIndex(hits), limit)
    IN  [k \in 1..Len(selected) |-> ExpansionOf(selected[k])]

\* an expansion that appends every item, seen or not
AddAll(expanded, items) == expanded \o items

\* for x in items: if x.get("chunk_id") not in seen_chunk_ids:
\*     expanded.append(x); seen_chunk_ids.add(x.get("chunk_id"))
RECURSIVE AddUnseen(_, _)
AddUnseen(expanded, items) ==
    IF items = <<>> THEN expanded
    ELSE AddUnseen(IF Head(items).chunk_id \in MapKeys(expanded)
                   THEN expanded ELSE Append(expanded, Head(items)),
                   Tail(items))

\* an expansion that leaves the chunk itself out
WithoutOriginal(expanded, result) == expanded

\* the chunk itself, if it is new
WithOriginal(expanded, result) == AddUnseen(expanded, <<result>>)

\* `if page:` the chunks of the same page next to it
WithNeighbors(rows, expanded, result, chunk_metadata, client_id) ==
    IF Get(chunk_metadata, "page", None) # None
    THEN AddUnseen(expanded,
                   _get_neighboring_chunks(rows, result.document_id,
                       result.chunk_index, chunk_metadata.page, client_id, 2))
    ELSE expanded

\* for a table row with a table index, the header of its table
WithHeaders(rows, expanded, result, chunk_metadata, client_id) ==
    IF /\ Get(chunk_metadata, "chunk_type", "") = "table_row"
       /\ Get(chunk_metadata, "table_index", None) # None
    THEN AddUnseen(expanded,
                   _get_table_headers(rows, result.document_id,
                                      chunk_metadata.table_index, client_id))
    ELSE expanded

\* chunk_metadata.get("vendor") or self._extract_vendor_from_text(text)
VendorOf(result, chunk_metadata) ==
    IF Get(chunk_metadata, "vendor", <<>>) # <<>>
    THEN chunk_metadata.vendor
    ELSE _extract_vendor_from_text(result.text, 1)

\* `if vendor:` up to three chunks of other documents on the same vendor
WithRelated(rows, expanded, result, vendor, client_id) ==
    IF vendor # <<>>
    THEN AddUnseen(expanded,
                   _get_related_vendor_chunks(rows, vendor, result.document_id,
                                              client_id, 3))
    ELSE expanded

\* one round of the loop of _pass_c_expansion; result.get("metadata", {}) or {}
ExpansionRound(rows, expanded, result, chunk_metadata, client_id) ==
    WithRelated(rows,
        WithHeaders(rows,
            WithNeighbors(rows, WithOriginal(expanded, result), result,
                          chunk_metadata, client_id),
            result, chunk_metadata, client_id),
        result, VendorOf(result, chunk_metadata), client_id)

\* the loop of _pass_c_expansion over the survivors of Pass B, left as soon as
\* len(expanded) >= limit
RECURSIVE ExpansionLoop(_, _, _, _, _)
ExpansionLoop(rows, results, client_id, limit, expanded) ==
    IF results = <<>> THEN expanded
    ELSE LET round == ExpansionRound(rows, expanded, Head(results),
                          IF Head(results).metadata = NoneDict
                          THEN <<>> ELSE Head(results).metadata,
                          client_id)
         IN  IF Len(round) >= limit THEN round
             ELSE ExpansionLoop(rows, Tail(results), client_id, limit, round)

\* _pass_c_expansion
_pass_c_expansion(rows, results, client_id, limit) ==
    Take(ExpansionLoop(rows, results, client_id, limit, <<>>), limit)

----------------------------------------------------------------------------
(* Cache and ContextCache *)

\* ContextCache.set stores bundles for 30 minutes
context_ttl == 1800

\* Cache._make_key: the digest of the prefix and the arguments, as the
\* arguments themselves
_make_key(prefix, query, filters) == <<prefix, query, filters>>

\* a lookup that never lets an entry expire
CacheHitForever(key) == key \in DOMAIN cache

\* Cache.get: the value, or None when the key is absent or the entry expired
CacheHit(key) == key \in DOMAIN cache /\ ~(time > cache[key].expires_at)

\* Cache.get deletes the entry it finds expired
CacheAfterGet(key) ==
    IF key \in DOMAIN cache /\ time > cache[key].expires_at
    THEN [k \in (DOMAIN cache) \ {key} |-> cache[k]]
    ELSE cache

\* Cache.set
CacheSet(c, key, value, ttl) ==
    [k \in (DOMAIN c) \cup {key} |->
        IF k = key THEN [value |-> value, expires_at |-> time + ttl] ELSE c[k]]

----------------------------------------------------------------------------
(* The retrieval system: whole indexing and deletion calls, searches, time *)

Limits == 0..MaxLimit

CorpusBatch(d) == zip_batch(CorpusChunks(d), CorpusEmbeddings(d))

UnchangedTasks == UNCHANGED <<doc_status, task, faults>>

\* store_chunks_batch(d, chunks, embeddings) run to its end with no other call
\* in between, for a document that has no chunks
StoreDocument(d) ==
    LET batch == CorpusBatch(d)
        db == StoreAll([chunks |-> document_chunks, fts |-> document_fts,
                        uuid |-> next_uuid], d, batch)
    IN  /\ returned = NoCall
        /\ \A r \in document_chunks : r.document_id # d
        /\ next_uuid + Len(batch) - 1 <= MaxChunkIds
        /\ document_chunks' = db.chunks
        /\ document_fts' = db.fts
        /\ next_uuid' = db.uuid
        /\ UNCHANGED <<cache, time, returned, searches>>
        /\ UnchangedTasks

RECURSIVE DeleteAllFts(_, _)
DeleteAllFts(fts, chunk_rowids) ==
    IF chunk_rowids = <<>> THEN fts
    ELSE DeleteAllFts(DeleteFts(fts, Head(chunk_rowids)), Tail(chunk_rowids))

\* delete_document_chunks(d) run to its end with no other call in between
DeleteDocument(d) ==
    /\ returned = NoCall
    /\ \E r \in document_chunks : r.document_id = d
    /\ document_chunks' = DeleteChunks(document_chunks, d)
    /\ document_fts' = DeleteAllFts(document_fts,
                                    SelectDocumentRowids(document_chunks, d))
    /\ UNCHANGED <<next_uuid, cache, time, returned, searches>>
    /\ UnchangedTasks

\* the caller takes what the search returned and goes on
Receive ==
    /\ returned # NoCall
    /\ returned' = NoCall
    /\ UNCHANGED <<document_chunks, document_fts, next_uuid, cache, time, searches>>
    /\ UnchangedTasks

\* time passes
Tick ==
    /\ returned = NoCall
    /\ time < MaxTime
    /\ time' = time + TickSeconds
    /\ UNCHANGED returned
    /\ UNCHANGED <<document_chunks, document_fts, next_uuid, cache, searches>>
    /\ UnchangedTasks

\* what retrieve_context returns and caches once Pass C has run
AfterPassC(initial_results, filtered_results, expanded_results, limit) ==
    [raised |-> FALSE, cached |-> FALSE, caches |-> TRUE,
     initial_results |-> initial_results, filtered_results |-> filtered_results,
     final_results |-> Take(expanded_results, limit)]

\* retrieve_context from the result of Pass B on: `if not filtered_results:
\* return []`, then Pass C
AfterPassB(rows, initial_results, filtered, client_id, limit) ==
    IF filtered.raised
    THEN [raised |-> TRUE, cached |-> FALSE, caches |-> FALSE,
          initial_results |-> initial_results, filtered_results |-> <<>>,
          final_results |-> <<>>]
    ELSE IF filtered.results = <<>>
    THEN [raised |-> FALSE, cached |-> FALSE, caches |-> FALSE,
          initial_results |-> initial_results, filtered_results |-> <<>>,
          final_results |-> <<>>]
    ELSE AfterPassC(initial_results, filtered.results,
                    _pass_c_expansion(rows, filtered.results, client_id, limit),
                    limit)

\* retrieve_context from the result of Pass A on: `if not initial_results:
\* return []`, then Pass B
AfterPassA(rows, initial, query, client_id, limit, filters) ==
    IF initial.raised
    THEN [raised |-> TRUE, cached |-> FALSE, caches |-> FALSE,
          initial_results |-> <<>>, filtered_results |-> <<>>,
          final_results |-> <<>>]
    ELSE IF initial.results = <<>>
    THEN [raised |-> FALSE, cached |-> FALSE, caches |-> FALSE,
          initial_results |-> <<>>, filtered_results |-> <<>>,
          final_results |-> <<>>]
    ELSE AfterPassB(rows, initial.results,
                    _pass_b_filtering(initial.results, query, filters),
                    client_id, limit)

\* the cache after a call that missed it
CacheAfterMiss(key, outcome, use_cache) ==
    IF ~use_cache THEN cache
    ELSE IF outcome.caches
    THEN CacheSet(CacheAfterGet(key), key, outcome.final_results, context_ttl)
    ELSE CacheAfterGet(key)

Returned(call, outcome) ==
    Update(call, [raised |-> outcome.raised, cached |-> outcome.cached,
                  initial_results |-> outcome.initial_results,
                  filtered_results |-> outcome.filtered_results,
                  final_results |-> outcome.final_results])

\* MultiPassRetriever.retrieve_context, the cache being enabled in the
\* environment (ENABLE_CACHE unset)
retrieve_context(q, client_id, limit, filters, use_cache) ==
    /\ returned = NoCall
    /\ searches < MaxSearches
    /\ searches' = searches + 1
    /\ \E outcome \in
           IF use_cache /\ CacheHit(_make_key("context", q.query, filters))
           THEN {[raised |-> FALSE, cached |-> TRUE, caches |-> FALSE,
                  initial_results |-> <<>>, filtered_results |-> <<>>,
                  final_results |->
                      cache[_make_key("context", q.query, filters)].value]}
           ELSE {AfterPassA(document_chunks, initial, q.query, client_id, limit,
                            filters) :
                   initial \in _pass_a_vector_search(document_chunks, document_fts,
                                   q.query, q.query_embedding, client_id,
                                   max_initial_results, filters)} :
         /\ returned' = Returned([call |-> "retrieve_context", query |-> q.query,
                                  query_embedding |-> q.query_embedding,
                                  client_id |-> client_id, limit |-> limit,
                                  filters |-> filters, use_cache |-> use_cache],
                                 outcome)
         /\ cache' = IF outcome.cached THEN cache
                     ELSE CacheAfterMiss(_make_key("context", q.query, filters),
                                         outcome, use_cache)
    /\ UNCHANGED <<document_chunks, document_fts, next_uuid, time>>
    /\ UnchangedTasks

RECURSIVE StoreDocuments(_, _)
StoreDocuments(db, ds) ==
    IF ds = <<>> THEN db
    ELSE StoreDocuments(StoreAll(db, Head(ds), CorpusBatch(Head(ds))), Tail(ds))

\* documents D1 and D3 have been indexed before
InitRetrievalSystem ==
    /\ LET db == StoreDocuments(EmptyStore, <<"D1", "D3">>)
       IN  /\ document_chunks = db.chunks
           /\ document_fts = db.fts
           /\ next_uuid = db.uuid
    /\ doc_status = [d \in Docs |-> "pending"]
    /\ task = [t \in Tasks |-> IdleTask]
    /\ faults = [t \in Tasks |-> 0]
    /\ InitRetrieval

NextRetrieval ==
    \/ \E d \in CorpusDocs : StoreDocument(d)
    \/ \E d \in Deletable : DeleteDocument(d)
    \/ Tick
    \/ \E q \in Queries, client_id \in Clients, limit \in Limits,
          filters \in Filters, use_cache \in BOOLEAN :
         retrieve_context(q, client_id, limit, filters, use_cache)
    \/ Receive

SpecRetrieval == InitRetrievalSystem /\ [][NextRetrieval]_vars

\* the filters and thresholds the three searches are called with directly
SearchFilters == {<<>>, [client_id |-> "c1"], [document_id |-> "D1"],
                  [category |-> "bank"]}

Thresholds == {Rat(0, 1), Rat(3, 10), Rat(1, 2)}

\* SemanticSearch.search
semantic_search(q, limit, threshold, filters) ==
    /\ returned = NoCall
    /\ searches < MaxSearches
    /\ searches' = searches + 1
    /\ returned' = [call |-> "semantic_search", limit |-> limit, raised |-> FALSE,
                    query_embedding |-> q.query_embedding,
                    threshold |-> threshold, filters |-> filters,
                    final_results |-> SemanticSearch(document_chunks,
                                          q.query_embedding, limit, threshold, filters)]
    /\ UNCHANGED <<document_chunks, document_fts, next_uuid, cache, time>>
    /\ UnchangedTasks

\* FullTextSearch.search
fulltext_search(q, limit, filters) ==
    /\ returned = NoCall
    /\ searches < MaxSearches
    /\ searches' = searches + 1
    /\ returned' = IF fts5_syntax_error(q.query)
                   THEN [call |-> "fulltext_search", limit |-> limit,
                         query |-> q.query, filters |-> filters,
                         raised |-> TRUE, final_results |-> <<>>]
                   ELSE [call |-> "fulltext_search", limit |-> limit,
                         query |-> q.query, filters |-> filters,
                         raised |-> FALSE,
                         final_results |-> FullTextSearch(document_chunks,
                                               document_fts, q.query, limit, filters)]
    /\ UNCHANGED <<document_chunks, document_fts, next_uuid, cache, time>>
    /\ UnchangedTasks

\* HybridSearch.search
hybrid_search(q, limit, threshold, filters) ==
    /\ returned = NoCall
    /\ searches < MaxSearches
    /\ searches' = searches + 1
    /\ \E outcome \in HybridSearch(document_chunks, document_fts, q.query,
                                   q.query_embedding, limit, threshold, filters) :
         returned' = [call |-> "hybrid_search", limit |-> limit,
                      query |-> q.query, query_embedding |-> q.query_embedding,
                      threshold |-> threshold, filters |-> filters,
                      raised |-> outcome.raised, final_results |-> outcome.results]
    /\ UNCHANGED <<document_chunks, document_fts, next_uuid, cache, time>>
    /\ UnchangedTasks

\* the three searches called directly, on a store that documents enter and leave
NextSearch ==
    \/ \E d \in CorpusDocs : StoreDocument(d)
    \/ \E d \in Deletable : DeleteDocument(d)
    \/ \E q \in Queries, limit \in Limits, threshold \in Thresholds,
          filters \in SearchFilters :
         semantic_search(q, limit, threshold, filters)
    \/ \E q \in Queries, limit \in Limits, filters \in SearchFilters :
         fulltext_search(q, limit, filters)
    \/ \E q \in Queries, limit \in Limits, threshold \in Thresholds,
          filters \in SearchFilters :
         hybrid_search(q, limit, threshold, filters)
    \/ Receive

SpecSearch == InitRetrievalSystem /\ [][NextSearch]_vars

----------------------------------------------------------------------------
(* Properties of the store *)

Quiet == \A t \in Tasks : ~Running(t)

Finished(t) == task[t].pc \in {"done", "raised"}

ChunksOf(d) == {r \in document_chunks : r.document_id = d}

\* the row of a chunk id has its lexical-index entry, holding the row's text
Indexed(chunk_id) ==
    \E r \in document_chunks :
        /\ r.id = chunk_id
        /\ [rowid |-> r.rowid, text |-> r.text] \in document_fts

\* C4: whenever no storage call is in progress (every call made so far has
\* returned or raised), document_fts holds an entry for a rowid if and only
\* if document_chunks holds a row with that rowid.
C4_FtsEntryIffChunkRow ==
    Quiet => FtsRowids(document_fts) = Rowids(document_chunks)

\* C5: a delete_document_chunks call that has returned or raised has removed
\* every chunk row of the document and every lexical-index entry of the
\* rowids it selected, or it has removed none of them.
C5_DeleteIsAtomic ==
    \A t \in Tasks :
        (task[t].op = "delete_document_chunks" /\ Finished(t)) =>
            LET selected == Range(task[t].chunk_rowids)
            IN  \/ /\ ChunksOf(task[t].doc) = {}
                   /\ selected \cap FtsRowids(document_fts) = {}
                \/ /\ selected \subseteq Rowids(ChunksOf(task[t].doc))
                   /\ selected \subseteq FtsRowids(document_fts)

\* C7: a store_chunks_batch call that raised has left no chunk row of the
\* batch behind; one that returned has stored one indexed chunk per input
\* position.
C7_BatchAllOrNothing ==
    \A t \in Tasks :
        task[t].op = "store_chunks_batch" =>
            LET tk == task[t]
                ids == Range(tk.chunk_ids) \cup {tk.chunk_id}
            IN  /\ tk.pc = "raised" =>
                      {r \in document_chunks : r.id \in ids} = {}
                /\ tk.pc = "done" =>
                      /\ Len(tk.chunk_ids) = Len(tk.batch)
                      /\ \A k \in 1..Len(tk.batch) :
                            \E r \in document_chunks :
                                /\ r.id = tk.chunk_ids[k]
                                /\ r.document_id = tk.doc
                                /\ r.chunk_index = tk.batch[k].chunk_index
                                /\ r.text = tk.batch[k].text

\* the chunks a finished store call has stored are rows of its document and
\* each has its own lexical-index entry
StoredIntact(t) ==
    LET tk == task[t]
    IN  /\ tk.pc = "done"
        /\ Len(tk.chunk_ids) = Len(tk.batch)
        /\ \A k \in 1..Len(tk.batch) :
              /\ Indexed(tk.chunk_ids[k])
              /\ \E r \in document_chunks :
                    /\ r.id = tk.chunk_ids[k]
                    /\ r.document_id = tk.doc
                    /\ r.text = tk.batch[k].text

\* C8: while store_chunks_batch calls interleave, no lexical-index insert
\* finds its rowid taken (no step of either call can fail), and when one
\* call for document A and one for document B have both ended, both have
\* returned, each document holds as many chunks as its batch, and every
\* chunk carries its document's id and text and has its own index entry.
C8_ConcurrentBatches ==
    /\ \A t \in Tasks :
          task[t].pc = "insert_fts" =>
              /\ task[t].chunk_rowid \notin FtsRowids(document_fts)
              /\ \E r \in document_chunks :
                    r.id = task[t].chunk_id /\ r.rowid = task[t].chunk_rowid
    /\ (/\ \A t \in Tasks : task[t].calls = 1 /\ ~Running(t)
        /\ task["t1"].doc = "A" /\ task["t2"].doc = "B") =>
            \A t \in Tasks :
                /\ StoredIntact(t)
                /\ Cardinality(ChunksOf(task[t].doc)) = Len(task[t].batch)

\* both batches have been stored by calls whose steps interleaved
C8_Witness ==
    /\ \A t \in Tasks : task[t].calls = 1 /\ task[t].pc = "done"
    /\ task["t1"].doc = "A" /\ task["t2"].doc = "B"
    /\ Len(task["t1"].batch) = 2 /\ Len(task["t2"].batch) = 2
    /\ task["t1"].chunk_ids[1] < task["t2"].chunk_ids[1]
    /\ task["t2"].chunk_ids[1] < task["t1"].chunk_ids[2]
    /\ task["t1"].chunk_ids[2] < task["t2"].chunk_ids[2]

\* C9: a store call for one document that met no storage error of its own,
\* running beside a delete_document_chunks that met none either (or beside a
\* failed indexing) of another document, returns with all its chunks stored
\* and indexed.
C9_OtherDocumentUnaffected ==
    \A a \in Tasks, b \in Tasks :
        (/\ a # b
         /\ task[a].doc # task[b].doc
         /\ \/ task[a].op = "delete_document_chunks" /\ task[a].pc = "done"
                  /\ faults[a] = 0
            \/ task[a].op = "index_document" /\ task[a].pc = "raised"
         /\ task[b].op \in {"store_chunk", "store_chunks_batch"}
         /\ Finished(b)
         /\ faults[b] = 0) =>
            StoredIntact(b)

\* C10: whenever no call is in progress, no two rows of document_chunks have
\* the same document_id and the same chunk_index.
C10_ChunkIndexUnique ==
    Quiet =>
        \A r1 \in document_chunks, r2 \in document_chunks :
            (r1.document_id = r2.document_id /\ r1.chunk_index = r2.chunk_index)
                => r1 = r2

----------------------------------------------------------------------------
(* Properties of retrieval *)

ChunkIds(results) == [k \in 1..Len(results) |-> results[k].chunk_id]

\* C1: a call retrieve_context(..., limit=L) returns at most L chunks, whatever
\* retrieve_context calls came before it and whether it used the cache or not.
C1_AtMostLimit ==
    returned.call = "retrieve_context" =>
        Len(returned.final_results) <= returned.limit

\* C2: the bundle retrieve_context returns holds no chunk id twice, whatever
\* neighbors, table headers and vendor-related chunks Pass C adds and whichever
\* survivors of Pass B they coincide with.
C2_NoDuplicateChunkIds ==
    returned.call = "retrieve_context" =>
        \A i, j \in 1..Len(returned.final_results) :
            i # j => returned.final_results[i].chunk_id # returned.final_results[j].chunk_id

\* Pass C, expanding an earlier survivor, came upon a chunk that is itself a
\* later survivor of Pass B, and the bundle has room for both
C2_Witness ==
    /\ returned.call = "retrieve_context"
    /\ ~returned.cached
    /\ Len(returned.final_results) >= 3
    /\ \E i, j \in 1..Len(returned.filtered_results) :
         /\ i < j
         /\ returned.filtered_results[j].chunk_id
              \in MapKeys(ExpansionRound(document_chunks, <<>>,
                              returned.filtered_results[i],
                              IF returned.filtered_results[i].metadata = NoneDict
                              THEN <<>> ELSE returned.filtered_results[i].metadata,
                              returned.client_id))
         /\ returned.filtered_results[j].chunk_id
              \in Range(ChunkIds(returned.final_results))
         /\ returned.filtered_results[i].chunk_id
              \in Range(ChunkIds(returned.final_results))

\* the identifiers the extraction found in a candidate
EntitiesOf(result) ==
    LET entities == Get(result.metadata, "entities", <<>>)
    IN  Range(Get(entities, "pan_numbers", <<>>))
            \cup Range(Get(entities, "gstin_numbers", <<>>))
            \cup Range(Get(entities, "invoice_numbers", <<>>))

\* a word of the query is, character for character, one of them
ExactEntityMatch(query, result) ==
    \E word \in Range(Runs(query, 1, WordChars \cup {"-", "/"})) :
        word \in EntitiesOf(result)

\* the filters that Pass B applies ahead of the entity override drop the candidate
DroppedByFilter(query, result, filters) ==
    \/ "doc_type" \in DOMAIN filters /\ result.doc_type # filters.doc_type
    \/ /\ _extract_time_hints(query) # <<>>
       /\ result.period # <<>>
       /\ ~_period_matches(result.period, _extract_time_hints(query))

\* C3: when Pass B returns, every Pass A candidate one of whose extracted
\* entities is exactly a word of the query is among the survivors, whatever its
\* similarity or combined score (candidates dropped by the doc_type or the
\* period filter aside).
C3_EntityMatchSurvives ==
    (returned.call = "retrieve_context" /\ ~returned.cached /\ ~returned.raised) =>
        \A k \in 1..Len(returned.initial_results) :
            (/\ ExactEntityMatch(returned.query, returned.initial_results[k])
             /\ ~DroppedByFilter(returned.query, returned.initial_results[k],
                                 returned.filters))
            => returned.initial_results[k].chunk_id
                   \in Range(ChunkIds(returned.filtered_results))

\* C6: a search made after delete_document_chunks(d) has completed, and before d
\* is indexed again, returns no chunk of d: every chunk a search returns
\* belongs to a document that has chunks in the store.
C6_NoChunkOfDeletedDocument ==
    returned.call # "none" =>
        \A k \in 1..Len(returned.final_results) :
            \E r \in document_chunks :
                r.document_id = returned.final_results[k].document_id

----------------------------------------------------------------------------
(* Reindexing: reindex_document calls made one after the other, no storage
   error, on a store whose documents were indexed by index_document *)

IndexedStore(db, d) == StoreAll(db, d, IndexBatch(d, DocText(d), DocumentMetadata(d)))

\* document A has been indexed, alone, before document C or after it
ReindexStores ==
    {IndexedStore(EmptyStore, "A"),
     IndexedStore(IndexedStore(EmptyStore, "A"), "C"),
     IndexedStore(IndexedStore(EmptyStore, "C"), "A")}

InitReindex ==
    /\ \E db \in ReindexStores :
         /\ document_chunks = db.chunks
         /\ document_fts = db.fts
         /\ next_uuid = db.uuid
    /\ doc_status = [d \in Docs |-> "pending"]
    /\ task = [t \in Tasks |-> IdleTask]
    /\ faults = [t \in Tasks |-> 0]
    /\ InitRetrieval

\* reindex_document called while no other storage call is in progress
reindex_document_alone(t) ==
    /\ \A u \in Tasks : ~Running(u)
    /\ reindex_document(t)

NextReindex ==
    \E t \in Tasks :
        \/ reindex_document_alone(t)
        \/ FetchDocumentRowids(t)
        \/ ExecDeleteChunks(t)
        \/ ExecDeleteFts(t)
        \/ ExecInsertChunk(t)
        \/ FetchRowid(t)
        \/ ExecInsertFts(t)

SpecReindex == InitReindex /\ [][NextReindex]_vars

\* the rows of document d are, position for position, the chunks that indexing
\* its text makes: as many rows as chunks, one row per chunk_index, with the
\* chunk's text
HoldsIndexingOf(d) ==
    LET batch == IndexBatch(d, DocText(d), DocumentMetadata(d))
    IN  /\ Cardinality(ChunksOf(d)) = Len(batch)
        /\ \A k \in 1..Len(batch) :
              \E r \in ChunksOf(d) :
                  r.chunk_index = batch[k].chunk_index /\ r.text = batch[k].text

\* C11: between calls every indexed document holds exactly the chunks of its
\* text (so a reindex_document of an indexed document leaves as many chunks,
\* with the same texts at the same chunk_index, as it found), no lexical-index
\* insert of a reindex finds its rowid taken, and when reindex_document has
\* returned every row of the document is one the call stored itself: no chunk
\* of the earlier indexing remains.
C11_ReindexSameChunks ==
    /\ Quiet => \A d \in Docs : ChunksOf(d) = {} \/ HoldsIndexingOf(d)
    /\ \A t \in Tasks :
          /\ task[t].pc = "insert_fts" =>
                task[t].chunk_rowid \notin FtsRowids(document_fts)
          /\ (task[t].op = "reindex_document" /\ task[t].pc = "done") =>
                /\ HoldsIndexingOf(task[t].doc)
                /\ {r.id : r \in ChunksOf(task[t].doc)} = Range(task[t].chunk_ids)
                /\ \A k \in 1..Len(task[t].chunk_ids) : Indexed(task[t].chunk_ids[k])

\* reindex_document has returned for a document that held several chunks,
\* which it deleted and stored again
C11_Witness ==
    \E t \in Tasks :
        /\ task[t].op = "reindex_document" /\ task[t].pc = "done"
        /\ Len(task[t].chunk_rowids) >= 2
        /\ Len(task[t].chunk_ids) = Len(task[t].chunk_rowids)
        /\ \A k \in 1..Len(task[t].chunk_ids) :
              task[t].chunk_ids[k] > Len(task[t].chunk_rowids)

----------------------------------------------------------------------------
(* The chunker alone: TextChunker(chunk_size, chunk_overlap).split_text(text)
   for every text of up to MaxTextLen characters *)

Alphabet == {"a", " ", ".", "\n"}

Texts == UNION {[1..n -> Alphabet] : n \in 0..MaxTextLen}

ChunkSizes == {2, 3}

ChunkOverlaps == {0, 1, 2}

\* TextChunker(chunk_size, chunk_overlap).split_text(text, {}) returns
call_split_text(text, chunk_size, chunk_overlap) ==
    /\ returned = NoCall
    /\ returned' = [call |-> "split_text", text |-> text,
                    chunk_size |-> chunk_size, chunk_overlap |-> chunk_overlap,
                    chunks |-> split_text(text, <<>>, chunk_size, chunk_overlap)]
    /\ UNCHANGED <<document_chunks, document_fts, doc_status, next_uuid, task,
                   faults, cache, time, searches>>

NextChunker ==
    \/ \E text \in Texts, chunk_size \in ChunkSizes, chunk_overlap \in ChunkOverlaps :
         call_split_text(text, chunk_size, chunk_overlap)
    \/ Receive

InitChunker ==
    /\ document_chunks = EmptyStore.chunks
    /\ document_fts = EmptyStore.fts
    /\ next_uuid = EmptyStore.uuid
    /\ doc_status = [d \in Docs |-> "pending"]
    /\ task = [t \in Tasks |-> IdleTask]
    /\ faults = [t \in Tasks |-> 0]
    /\ InitRetrieval

SpecChunker == InitChunker /\ [][NextChunker]_vars

\* C12: no chunk that split_text returns has more than chunk_size +
\* chunk_overlap characters.
C12_ChunkLengthBounded ==
    returned.call = "split_text" =>
        \A k \in 1..Len(returned.chunks) :
            Len(returned.chunks[k].text) <= returned.chunk_size + returned.chunk_overlap

\* the characters of a text that are not whitespace, in order
NonWhitespace(s) == SelectSeq(s, LAMBDA c : ~IsSpace(c))

\* what the first k chunks can reconstruct to: each chunk after the first
\* gives up a leading overlap, which is at most chunk_overlap characters that
\* end the chunk before it
RECURSIVE Reconstructions(_, _, _)
Reconstructions(chunks, chunk_overlap, k) ==
    IF k = 0 THEN {<<>>}
    ELSE IF k = 1 THEN {NonWhitespace(chunks[1].text)}
    ELSE LET c == NonWhitespace(chunks[k].text)
             p == NonWhitespace(chunks[k - 1].text)
             overlaps == {n \in 0..chunk_overlap :
                            /\ n <= Len(c) /\ n <= Len(p)
                            /\ SubSeq(c, 1, n) = SubSeq(p, Len(p) - n + 1, Len(p))}
         IN  {r \o SubSeq(c, n + 1, Len(c)) :
                 r \in Reconstructions(chunks, chunk_overlap, k - 1), n \in overlaps}

----------------------------------------------------------------------------
(* Texts without content: split_text and index_document on empty and
   whitespace-only text *)

\* documents whose extracted text is whitespace only, or empty
BlankDocs == {"W", "E"}

BlankTexts == {text \in Texts : \A k \in 1..Len(text) : IsSpace(text[k])}

\* index_document(d, text of d, metadata of d), the caller having taken what
\* split_text returned
index_document_for(t, d) ==
    /\ CanCall(t)
    /\ returned = NoCall
    /\ task' = [task EXCEPT ![t] =
                   EnterIndex(Frame(t, "index_document", "insert_chunk", d, <<>>),
                              IndexBatch(d, DocText(d), DocumentMetadata(d)))]
    /\ UnchangedStore

\* split_text called on a text without content, before the indexing calls
call_split_text_blank(text, chunk_size, chunk_overlap) ==
    /\ Calls = 0
    /\ call_split_text(text, chunk_size, chunk_overlap)

NextBlank ==
    \/ \E text \in BlankTexts, chunk_size \in ChunkSizes, chunk_overlap \in ChunkOverlaps :
         call_split_text_blank(text, chunk_size, chunk_overlap)
    \/ Receive
    \/ \E t \in Tasks :
         \/ \E d \in BlankDocs \cup {"A"} : index_document_for(t, d)
         \/ ExecInsertChunk(t)
         \/ FetchRowid(t)
         \/ ExecInsertFts(t)

SpecBlank == Init /\ [][NextBlank]_vars

\* C14: split_text of an empty or whitespace-only text returns the empty
\* list, and a call of index_document on such a text returns at once with no
\* chunk created, document_chunks and document_fts being what they were.
C14_BlankTextFailsSoft ==
    /\ [](returned.call = "split_text" => returned.chunks = <<>>)
    /\ [][\A t \in Tasks :
            (/\ task'[t] # task[t]
             /\ task'[t].op = "index_document"
             /\ task'[t].doc \in BlankDocs)
            => /\ task'[t].pc = "done"
               /\ task'[t].batch = <<>>
               /\ task'[t].chunk_ids = <<>>
               /\ document_chunks' = document_chunks
               /\ document_fts' = document_fts]_vars

\* index_document has returned for a text of whitespace while the store held
\* chunks and another indexing was storing its own
C14_Witness ==
    \E t \in Tasks, u \in Tasks :
        /\ task[t].op = "index_document" /\ task[t].doc = "W" /\ task[t].pc = "done"
        /\ task[u].op = "index_document" /\ task[u].doc = "A" /\ Running(u)
        /\ document_chunks # {}

----------------------------------------------------------------------------
(* Properties of HybridSearch.search *)

\* a direct call of HybridSearch.search has returned its results
HybridReturned == returned.call = "hybrid_search" /\ ~returned.raised

\* the results the two engines gave the call that has returned
SemanticResultsOfCall ==
    SemanticSearch(document_chunks, returned.query_embedding, returned.limit * 2,
                   returned.threshold, returned.filters)

KeywordResultsOfCall ==
    FullTextSearch(document_chunks, document_fts, returned.query,
                   returned.limit * 2, returned.filters)

ChunkIdsOf(results) == {results[k].chunk_id : k \in 1..Len(results)}

\* (value - min) / range over a set of scores, the range of a single-valued
\* set being 1
NormalizedIn(value, scores) ==
    LET lo == RatMin(scores)
        hi == RatMax(scores)
    IN  RatDiv(RatSub(value, lo), IF hi = lo THEN Rat(1, 1) ELSE RatSub(hi, lo))

OnlySemantic(x) ==
    /\ x.chunk_id \in ChunkIdsOf(SemanticResultsOfCall)
    /\ x.chunk_id \notin ChunkIdsOf(KeywordResultsOfCall)

OnlyKeyword(x) ==
    /\ x.chunk_id \in ChunkIdsOf(KeywordResultsOfCall)
    /\ x.chunk_id \notin ChunkIdsOf(SemanticResultsOfCall)

\* C15: a chunk that only one of the two engines returned has, in the result of
\* HybridSearch.search, a combined_score equal to that engine's normalized
\* weight (0.7 / (0.7 + 0.3) or 0.3 / (0.7 + 0.3)) times its normalized score
\* from that engine ((sim - min) / range, or 1 - (rank - min) / range), and the
\* score of the other engine is 0
C15_SingleEngineScore ==
    HybridReturned =>
        LET similarities == {SemanticResultsOfCall[k].similarity :
                                 k \in 1..Len(SemanticResultsOfCall)}
            ranks == {KeywordResultsOfCall[k].rank : k \in 1..Len(KeywordResultsOfCall)}
            weight(w) == RatDiv(w, RatAdd(Rat(7, 10), Rat(3, 10)))
        IN  \A k \in 1..Len(returned.final_results) :
                LET x == returned.final_results[k]
                IN  /\ OnlySemantic(x) =>
                           /\ x.combined_score =
                                  RatMul(weight(Rat(7, 10)),
                                         NormalizedIn(x.similarity, similarities))
                           /\ x.keyword_score = Rat(0, 1)
                    /\ OnlyKeyword(x) =>
                           /\ x.combined_score =
                                  RatMul(weight(Rat(3, 10)),
                                         RatSub(Rat(1, 1), NormalizedIn(x.rank, ranks)))
                           /\ x.semantic_score = Rat(0, 1)

\* a call returned a chunk only the semantic engine found and a chunk only the
\* lexical engine found, both with a positive score
C15_Witness ==
    /\ HybridReturned
    /\ \E j, k \in 1..Len(returned.final_results) :
           /\ OnlySemantic(returned.final_results[j])
           /\ OnlyKeyword(returned.final_results[k])
           /\ RatLess(Rat(0, 1), returned.final_results[j].combined_score)
           /\ RatLess(Rat(0, 1), returned.final_results[k].combined_score)

\* the result belongs to a document whose fields equal every supplied filter
\* value
SatisfiesFilters(x, filters) ==
    /\ "document_id" \in DOMAIN filters => x.document_id = filters.document_id
    /\ "client_id" \in DOMAIN filters => x.client_id = filters.client_id
    /\ "period" \in DOMAIN filters => x.period = filters.period
    /\ "category" \in DOMAIN filters => x.category = filters.category

\* C16: every result FullTextSearch.search or HybridSearch.search returns
\* satisfies every supplied filter among document_id, client_id, period and
\* category
C16_LexicalResultsSatisfyFilters ==
    (returned.call \in {"fulltext_search", "hybrid_search"} /\ ~returned.raised) =>
        \A k \in 1..Len(returned.final_results) :
            SatisfiesFilters(returned.final_results[k], returned.filters)

----------------------------------------------------------------------------
(* Indexing a document and searching for it *)

\* documents whose text fits in one chunk: an invoice number and a plain word
ShortDocs == {"H", "P"}

\* the text of a document as the question, with the embedding of that text
ShortQueries == {[query |-> DocText(d), query_embedding |-> encode(DocText(d))] :
                     d \in ShortDocs}

\* index_document on a store that starts empty
InitEndToEnd ==
    /\ document_chunks = {}
    /\ document_fts = {}
    /\ next_uuid = 1
    /\ doc_status = [d \in Docs |-> "pending"]
    /\ task = [t \in Tasks |-> IdleTask]
    /\ faults = [t \in Tasks |-> 0]
    /\ InitRetrieval

\* HybridSearch.search called while no indexing call is in progress
hybrid_search_indexed(q, limit, threshold, filters) ==
    /\ \A t \in Tasks : ~Running(t)
    /\ hybrid_search(q, limit, threshold, filters)

NextEndToEnd ==
    \/ \E t \in Tasks :
         \/ \E d \in ShortDocs : index_document_for(t, d)
         \/ ExecInsertChunk(t)
         \/ FetchRowid(t)
         \/ ExecInsertFts(t)
    \/ \E q \in ShortQueries, limit \in Limits, threshold \in Thresholds :
         hybrid_search_indexed(q, limit, threshold, <<>>)
    \/ Receive

SpecEndToEnd == InitEndToEnd /\ [][NextEndToEnd]_vars

\* every word of the query occurs in the text
LexicallyMatches(text, query) ==
    /\ fts_tokens(query) # <<>>
    /\ Range(fts_tokens(query)) \subseteq Range(fts_tokens(text))

\* C17: when the store holds the one chunk of the one document indexed, a call
\* of HybridSearch.search with a limit of at least one, a query whose words
\* occur in the chunk's text and an embedding that matches the chunk's returns
\* that chunk as its only result, with a combined_score above 0
C17_SoleResultAfterIndexing ==
    \A r \in document_chunks :
        (/\ returned.call = "hybrid_search"
         /\ returned.limit >= 1
         /\ document_chunks = {r}
         /\ LexicallyMatches(r.text, returned.query)
         /\ cosine_similarity(returned.query_embedding, r.embedding) = Rat(1, 1))
        => /\ ~returned.raised
           /\ Len(returned.final_results) = 1
           /\ returned.final_results[1].chunk_id = r.id
           /\ RatLess(Rat(0, 1), returned.final_results[1].combined_score)

----------------------------------------------------------------------------
(* Embeddings as BLOBs *)

\* VectorStorage.__init__: self.embedding_dim
embedding_dim == 384

\* the bytes of a number as an IEEE-754 value of 2, 4 or 8 bytes, little-endian
pack(value, itemsize) ==
    CASE itemsize = 4 /\ value = 0 -> <<0, 0, 0, 0>>
      [] itemsize = 4 /\ value = 1 -> <<0, 0, 128, 63>>
      [] itemsize = 8 /\ value = 0 -> <<0, 0, 0, 0, 0, 0, 0, 0>>
      [] itemsize = 8 /\ value = 1 -> <<0, 0, 0, 0, 0, 0, 240, 63>>
      [] itemsize = 2 /\ value = 0 -> <<0, 0>>
      [] itemsize = 2 /\ value = 1 -> <<0, 60>>

\* the number the bytes of an item hold, in eighths: 0.0, 1.0 and, for the
\* four bytes 00 00 f0 3f read as a float32, 1.875
unpack(item) ==
    CASE item \in {<<0, 0, 0, 0>>, <<0, 0, 0, 0, 0, 0, 0, 0>>, <<0, 0>>} -> 0
      [] item \in {<<0, 0, 128, 63>>, <<0, 0, 0, 0, 0, 0, 240, 63>>, <<0, 60>>} -> 8
      [] item = <<0, 0, 240, 63>> -> 15

\* np.array(values, dtype): the items of an array and their width in bytes
array(values, itemsize) ==
    [itemsize |-> itemsize,
     items |-> [k \in 1..Len(values) |-> pack(values[k], itemsize)]]

\* ndarray.tobytes
tobytes(a) ==
    [k \in 1..(Len(a.items) * a.itemsize) |->
        a.items[((k - 1) \div a.itemsize) + 1][((k - 1) % a.itemsize) + 1]]

\* np.frombuffer(blob, dtype): raises ValueError when the size of the buffer is
\* not a multiple of the item size
frombuffer(blob, itemsize) ==
    IF Len(blob) % itemsize # 0 THEN [raised |-> TRUE]
    ELSE [raised |-> FALSE,
          array |-> [itemsize |-> itemsize,
                     items |-> [k \in 1..(Len(blob) \div itemsize) |->
                                   SubSeq(blob, (k - 1) * itemsize + 1, k * itemsize)]]]

\* VectorStorage._embedding_to_blob
_embedding_to_blob(embedding) == tobytes(embedding)

\* VectorStorage._blob_to_embedding and SemanticSearch._blob_to_embedding
_blob_to_embedding(blob) == frombuffer(blob, 4)

\* the numbers of an array
values_of(a) == [k \in 1..Len(a.items) |-> unpack(a.items[k])]

\* the first unit vector of the configured dimension
UnitVector == [k \in 1..embedding_dim |-> IF k = 1 THEN 1 ELSE 0]

\* the vectors store_chunk is given: float32 of the configured dimension,
\* float32 of two items, float64 and float16 of one item
Embeddings ==
    {array(UnitVector, 4), array(<<1, 0>>, 4), array(<<1>>, 8), array(<<1>>, 2)}

QueryEmbeddings == {array(UnitVector, 4), array(<<1, 0>>, 4)}

\* store_chunk(document_id, chunk_index, text, embedding): the local variables
\* as the INSERT is reached, the vector given being kept next to its BLOB
store_chunk_embedding(t, embedding) ==
    /\ CanCall(t)
    /\ returned = NoCall
    /\ task' = [task EXCEPT ![t] =
                   Frame(t, "store_chunk", "insert_chunk", "A",
                         <<[chunk_index |-> Calls, text |-> DocText("P"),
                            embedding |-> _embedding_to_blob(embedding),
                            vector |-> embedding, metadata |-> <<>>]>>)]
    /\ UnchangedStore

\* the chunk get_chunk and get_document_chunks make of a row
StoredChunk(r) ==
    Update([id |-> r.id, chunk_index |-> r.chunk_index, text |-> r.text,
            metadata |-> r.metadata],
           IF r.embedding # <<>>
           THEN [embedding |-> _blob_to_embedding(r.embedding).array] ELSE <<>>)

ReadRaises(r) == r.embedding # <<>> /\ _blob_to_embedding(r.embedding).raised

\* VectorStorage.get_chunk
get_chunk(chunk_id) ==
    /\ returned = NoCall
    /\ \A t \in Tasks : ~Running(t)
    /\ \E r \in document_chunks :
         /\ r.id = chunk_id
         /\ returned' = IF ReadRaises(r)
                        THEN [call |-> "get_chunk", chunk_id |-> chunk_id, raised |-> TRUE]
                        ELSE [call |-> "get_chunk", chunk_id |-> chunk_id, raised |-> FALSE,
                              chunk |-> Update(StoredChunk(r),
                                               [document_id |-> r.document_id])]
    /\ UNCHANGED <<document_chunks, document_fts, next_uuid, cache, time, searches>>
    /\ UnchangedTasks

\* VectorStorage.get_document_chunks
get_document_chunks(document_id) ==
    LET rows == OrderByChunkIndex({r \in document_chunks : r.document_id = document_id})
    IN  /\ returned = NoCall
        /\ \A t \in Tasks : ~Running(t)
        /\ returned' = IF \E k \in 1..Len(rows) : ReadRaises(rows[k])
                       THEN [call |-> "get_document_chunks",
                             document_id |-> document_id, raised |-> TRUE]
                       ELSE [call |-> "get_document_chunks",
                             document_id |-> document_id, raised |-> FALSE,
                             chunks |-> [k \in 1..Len(rows) |-> StoredChunk(rows[k])]]
        /\ UNCHANGED <<document_chunks, document_fts, next_uuid, cache, time, searches>>
        /\ UnchangedTasks

\* the rows SemanticSearch.search reads an embedding of
ScoredRows(rows, filters) ==
    {r \in rows : SemanticFilter(r, filters) /\ r.embedding # <<>>}

\* SemanticSearch.search on stored BLOBs: np.frombuffer raises on a buffer of
\* the wrong size, np.dot on vectors of different lengths
semantic_search_stored(query_embedding, limit, threshold) ==
    LET scored == ScoredRows(document_chunks, <<>>)
        call == [call |-> "semantic_search", limit |-> limit,
                 query_embedding |-> query_embedding,
                 threshold |-> threshold, filters |-> <<>>]
    IN  /\ returned = NoCall
        /\ \A t \in Tasks : ~Running(t)
        /\ returned' =
               IF \E r \in scored :
                      \/ _blob_to_embedding(r.embedding).raised
                      \/ Len(_blob_to_embedding(r.embedding).array.items)
                             # Len(query_embedding.items)
               THEN Update(call, [raised |-> TRUE, final_results |-> <<>>])
               ELSE Update(call,
                      [raised |-> FALSE,
                       final_results |->
                           SemanticSearch(
                               {[r EXCEPT !.embedding =
                                     values_of(_blob_to_embedding(r.embedding).array)] :
                                    r \in scored},
                               values_of(query_embedding), limit, threshold, <<>>)])
        /\ UNCHANGED <<document_chunks, document_fts, next_uuid, cache, time, searches>>
        /\ UnchangedTasks

NextBlob ==
    \/ \E t \in Tasks :
         \/ \E embedding \in Embeddings : store_chunk_embedding(t, embedding)
         \/ ExecInsertChunk(t)
         \/ FetchRowid(t)
         \/ ExecInsertFts(t)
    \/ \E chunk_id \in 1..MaxChunkIds : get_chunk(chunk_id)
    \/ get_document_chunks("A")
    \/ \E query_embedding \in QueryEmbeddings, limit \in Limits :
         semantic_search_stored(query_embedding, limit, Rat(0, 1))
    \/ Receive

SpecBlob == InitEndToEnd /\ [][NextBlob]_vars

\* the byte length of the BLOB is not that of embedding_dim float32 values
DimensionMismatch(blob) == Len(blob) # embedding_dim * 4

\* C18: a read of a stored embedding whose byte length does not match the
\* configured dimension raises, in get_chunk, in get_document_chunks and in
\* SemanticSearch.search
C18_DimensionMismatchReported ==
    /\ returned.call = "get_chunk" =>
           \A r \in document_chunks :
               (r.id = returned.chunk_id /\ DimensionMismatch(r.embedding))
               => returned.raised
    /\ returned.call = "get_document_chunks" =>
           \A r \in document_chunks :
               (r.document_id = returned.document_id /\ DimensionMismatch(r.embedding))
               => returned.raised
    /\ (returned.call = "semantic_search" /\ "query_embedding" \in DOMAIN returned
                                          /\ DOMAIN returned.query_embedding
                                                 = {"itemsize", "items"}) =>
           \A r \in document_chunks :
               (SemanticFilter(r, returned.filters) /\ DimensionMismatch(r.embedding))
               => returned.raised

\* the vectors have the same length and the same numbers
SameVector(a, b) ==
    /\ Len(a.items) = Len(b.items)
    /\ \A k \in 1..Len(a.items) : unpack(a.items[k]) = unpack(b.items[k])

\* C19: the embedding get_chunk and get_document_chunks return for a chunk is
\* the vector store_chunk was given for it, whatever the width of its items
C19_EmbeddingRoundTrip ==
    \A t \in Tasks :
        (task[t].op = "store_chunk" /\ task[t].pc = "done" /\ task[t].batch # <<>>
             /\ "vector" \in DOMAIN task[t].batch[1]) =>
            /\ (returned.call = "get_chunk" /\ returned.chunk_id = task[t].chunk_id) =>
                   /\ ~returned.raised
                   /\ "embedding" \in DOMAIN returned.chunk
                   /\ SameVector(returned.chunk.embedding, task[t].batch[1].vector)
            /\ returned.call = "get_document_chunks" =>
                   /\ ~returned.raised
                   /\ \A k \in 1..Len(returned.chunks) :
                          returned.chunks[k].id = task[t].chunk_id =>
                              /\ "embedding" \in DOMAIN returned.chunks[k]
                              /\ SameVector(returned.chunks[k].embedding,
                                            task[t].batch[1].vector)

----------------------------------------------------------------------------
(* Candidates with malformed metadata *)

\* the metadata of the candidate is None or has no entities record
MalformedMetadata(result) ==
    result.metadata = NoneDict \/ "entities" \notin DOMAIN result.metadata

\* the candidates of Pass A whose metadata is well formed, in their order
WellFormed(results) == SelectSeq(results, LAMBDA x : ~MalformedMetadata(x))

\* C20: when Pass A of retrieve_context yields a candidate with malformed
\* metadata, Pass B and Pass C complete without raising, and every candidate
\* that qualifies among the well-formed ones is still among the filtered
\* results, whatever the query
C20_MalformedCandidateExcludedAlone ==
    (/\ returned.call = "retrieve_context"
     /\ ~returned.cached
     /\ \E k \in 1..Len(returned.initial_results) :
            MalformedMetadata(returned.initial_results[k]))
    => /\ ~returned.raised
       /\ LET others == _pass_b_filtering(WellFormed(returned.initial_results),
                                          returned.query, returned.filters)
          IN  ~others.raised =>
                  Range(others.results) \subseteq Range(returned.filtered_results)

----------------------------------------------------------------------------
(* Pass B on the candidates of Pass A *)

\* the documents indexed before the questions are asked: D4 has no period, the
\* chunks of D5 are far from every question's embedding
FilterCorpora ==
    {<<"D1", "D4">>, <<"D2", "D4">>, <<"D1", "D5">>, <<"D5", "D3">>, <<"D2", "D5">>,
     <<"D1">>, <<"D5">>, <<"D1", "D2">>}

\* the questions of Queries and one that names no entity and no period
FilterQueries ==
    Queries \cup {[query |-> <<"A", "c", "m", "e">>, query_embedding |-> <<1, 0>>]}

InitFilter ==
    /\ \E ds \in FilterCorpora :
         LET db == StoreDocuments(EmptyStore, ds)
         IN  /\ document_chunks = db.chunks
             /\ document_fts = db.fts
             /\ next_uuid = db.uuid
    /\ doc_status = [d \in Docs |-> "pending"]
    /\ task = [t \in Tasks |-> IdleTask]
    /\ faults = [t \in Tasks |-> 0]
    /\ InitRetrieval

NextFilter ==
    \/ \E q \in FilterQueries, client_id \in Clients, limit \in Limits,
          filters \in Filters, use_cache \in BOOLEAN :
         retrieve_context(q, client_id, limit, filters, use_cache)
    \/ Receive

SpecFilter == InitFilter /\ [][NextFilter]_vars

\* retrieve_context has run its passes and returned
PassesReturned ==
    returned.call = "retrieve_context" /\ ~returned.cached /\ ~returned.raised

\* C21: when the query holds a time hint, every candidate Pass B keeps has a
\* period that contains one of the hints; a candidate with another period or
\* with no period is not kept
C21_SurvivorsMatchTimeHint ==
    LET time_hints == _extract_time_hints(returned.query)
    IN  (PassesReturned /\ time_hints # <<>>) =>
            \A k \in 1..Len(returned.filtered_results) :
                \E h \in 1..Len(time_hints) :
                    Contains(lower(returned.filtered_results[k].period),
                             lower(time_hints[h]))

\* the score of a candidate: its similarity or, when it has none, its
\* combined_score
ScoreOf(x) == IF "similarity" \in DOMAIN x THEN x.similarity ELSE x.combined_score

\* the entity override keeps the candidate whatever its score
ForceKept(x) == _has_entity_matches(returned.query, x)

\* C22: every candidate Pass B keeps without the entity override has a score
\* of at least 0.4, and the candidates kept are in descending order of score
C22_FloorAndOrder ==
    PassesReturned =>
        /\ \A k \in 1..Len(returned.filtered_results) :
               ~ForceKept(returned.filtered_results[k]) =>
                   ~RatLess(ScoreOf(returned.filtered_results[k]), Rat(2, 5))
        /\ \A j, k \in 1..Len(returned.filtered_results) :
               j < k => ~RatLess(ScoreOf(returned.filtered_results[j]),
                                 ScoreOf(returned.filtered_results[k]))

\* Pass B kept two candidates of different scores on their score alone and
\* dropped a candidate below the floor
C22_Witness ==
    /\ PassesReturned
    /\ \E j, k \in 1..Len(returned.filtered_results) :
           /\ ~ForceKept(returned.filtered_results[j])
           /\ ~ForceKept(returned.filtered_results[k])
           /\ RatLess(ScoreOf(returned.filtered_results[k]),
                      ScoreOf(returned.filtered_results[j]))
    /\ \E k \in 1..Len(returned.initial_results) :
           /\ RatLess(ScoreOf(returned.initial_results[k]), Rat(2, 5))
           /\ returned.initial_results[k] \notin Range(returned.filtered_results)

----------------------------------------------------------------------------
(* Determinism *)

\* the bundles a call of retrieve_context with the arguments of the call that
\* has returned can compute from the store as it is, one for each order in
\* which the merge of Pass A iterates the chunk ids
BundlesOfCall ==
    {AfterPassA(document_chunks, initial, returned.query, returned.client_id,
                returned.limit, returned.filters).final_results :
        initial \in _pass_a_vector_search(document_chunks, document_fts,
                        returned.query, returned.query_embedding,
                        returned.client_id, max_initial_results, returned.filters)}

\* C23: a call of retrieve_context that computed its bundle returned the only
\* bundle its arguments and the store allow: the same chunks in the same
\* order, whatever the order in which the merge iterates the chunk ids
C23_Deterministic ==
    (returned.call = "retrieve_context" /\ ~returned.cached /\ ~returned.raised) =>
        BundlesOfCall = {returned.final_results}

----------------------------------------------------------------------------
(* retrieve_context pass by pass *)

PassCorpora == {<<"D1">>, <<"D1", "D2">>}

InitPasses ==
    /\ \E ds \in PassCorpora :
         LET db == StoreDocuments(EmptyStore, ds)
         IN  /\ document_chunks = db.chunks
             /\ document_fts = db.fts
             /\ next_uuid = db.uuid
    /\ doc_status = [d \in Docs |-> "pending"]
    /\ task = [t \in Tasks |-> IdleTask]
    /\ faults = [t \in Tasks |-> 0]
    /\ InitRetrieval

\* the pass that runs after every pass, whatever the pass before it returned
PassAfterAny(pass, results) ==
    CASE pass = "pass_a" -> "pass_b" [] pass = "pass_b" -> "pass_c" [] OTHER -> "returned"

\* where retrieve_context goes after a pass: `if not initial_results: return []`
\* and `if not filtered_results: return []`
PassAfter(pass, results) ==
    IF results = <<>> THEN "returned"
    ELSE CASE pass = "pass_a" -> "pass_b" [] pass = "pass_b" -> "pass_c"
           [] OTHER -> "returned"

UnchangedByPass ==
    /\ UNCHANGED <<document_chunks, document_fts, next_uuid, time, searches>>
    /\ UnchangedTasks

\* retrieve_context up to its first pass: the cache is asked, and Cache.get
\* deletes the entry it finds expired
enter_retrieve_context(q, client_id, limit, filters, use_cache) ==
    LET key == _make_key("context", q.query, filters)
        call == [call |-> "retrieve_context", query |-> q.query,
                 query_embedding |-> q.query_embedding, client_id |-> client_id,
                 limit |-> limit, filters |-> filters, use_cache |-> use_cache,
                 raised |-> FALSE, passes |-> <<>>, initial_results |-> <<>>,
                 filtered_results |-> <<>>, final_results |-> <<>>]
    IN  /\ returned = NoCall
        /\ searches < MaxSearches
        /\ searches' = searches + 1
        /\ returned' = IF use_cache /\ CacheHit(key)
                       THEN Update(call, [pc |-> "returned", cached |-> TRUE,
                                          final_results |-> cache[key].value])
                       ELSE Update(call, [pc |-> "pass_a", cached |-> FALSE])
        /\ cache' = IF use_cache THEN CacheAfterGet(key) ELSE cache
        /\ UNCHANGED <<document_chunks, document_fts, next_uuid, time>>
        /\ UnchangedTasks

\* await self._pass_a_vector_search(...)
run_pass_a ==
    /\ returned # NoCall
    /\ returned.call = "retrieve_context"
    /\ returned.pc = "pass_a"
    /\ \E initial \in _pass_a_vector_search(document_chunks, document_fts,
                          returned.query, returned.query_embedding,
                          returned.client_id, max_initial_results, returned.filters) :
         returned' = Update(returned,
                        [passes |-> Append(returned.passes, "A"),
                         raised |-> initial.raised,
                         initial_results |-> initial.results,
                         pc |-> IF initial.raised THEN "returned"
                                ELSE PassAfter("pass_a", initial.results)])
    /\ UNCHANGED cache
    /\ UnchangedByPass

\* the call once Pass B has returned `filtered`
AfterRunB(call, filtered) ==
    Update(call, [passes |-> Append(call.passes, "B"),
                  raised |-> filtered.raised,
                  filtered_results |-> filtered.results,
                  pc |-> IF filtered.raised THEN "returned"
                         ELSE PassAfter("pass_b", filtered.results)])

\* await self._pass_b_filtering(initial_results, query, filters)
run_pass_b ==
    /\ returned # NoCall
    /\ returned.call = "retrieve_context"
    /\ returned.pc = "pass_b"
    /\ returned' = AfterRunB(returned,
                       _pass_b_filtering(returned.initial_results, returned.query,
                                         returned.filters))
    /\ UNCHANGED cache
    /\ UnchangedByPass

\* the call once Pass C has returned: final_results = expanded_results[:limit]
AfterRunC(call, expanded_results) ==
    Update(call, [passes |-> Append(call.passes, "C"),
                  final_results |-> Take(expanded_results, call.limit),
                  pc |-> PassAfter("pass_c", expanded_results)])

\* await self._pass_c_expansion(filtered_results, client_id, limit), the
\* truncation to limit and context_cache.set
run_pass_c ==
    /\ returned # NoCall
    /\ returned.call = "retrieve_context"
    /\ returned.pc = "pass_c"
    /\ returned' = AfterRunC(returned,
                       _pass_c_expansion(document_chunks, returned.filtered_results,
                                         returned.client_id, returned.limit))
    /\ cache' = IF returned.use_cache
                THEN CacheSet(cache, _make_key("context", returned.query,
                                               returned.filters),
                              returned'.final_results, context_ttl)
                ELSE cache
    /\ UnchangedByPass

\* the caller takes the bundle
ReceiveBundle ==
    /\ returned # NoCall
    /\ returned.pc = "returned"
    /\ Receive

NextPasses ==
    \/ \E q \in FilterQueries, client_id \in Clients, limit \in Limits,
          filters \in Filters, use_cache \in BOOLEAN :
         enter_retrieve_context(q, client_id, limit, filters, use_cache)
    \/ run_pass_a
    \/ run_pass_b
    \/ run_pass_c
    \/ ReceiveBundle

SpecPasses == InitPasses /\ [][NextPasses]_vars

InCall == returned # NoCall /\ returned.call = "retrieve_context"

\* C24: a call of retrieve_context that misses the cache runs Pass A, Pass B
\* and Pass C in that order, each at most once; when Pass A returns no
\* candidate the call returns the empty bundle at once, Pass B and Pass C do
\* not run and no cache entry is written
C24_PassesInOrder ==
    [][/\ returned' # NoCall =>
            returned'.passes \in {<<>>, <<"A">>, <<"A", "B">>, <<"A", "B", "C">>}
       /\ (InCall /\ returned' # NoCall) =>
            /\ Len(returned'.passes) <= Len(returned.passes) + 1
            /\ SubSeq(returned'.passes, 1, Len(returned.passes)) = returned.passes
       /\ (InCall /\ returned.pc = "pass_a" /\ returned' # NoCall
               /\ ~returned'.raised /\ returned'.initial_results = <<>>) =>
            /\ returned'.pc = "returned"
            /\ returned'.passes = <<"A">>
            /\ returned'.final_results = <<>>
            /\ cache' = cache]_vars

\* a call whose Pass A found nothing has returned, after a call that ran the
\* three passes and cached its bundle
C24_Witness ==
    /\ InCall
    /\ returned.pc = "returned"
    /\ returned.use_cache
    /\ returned.passes = <<"A">>
    /\ ~returned.raised
    /\ returned.final_results = <<>>
    /\ _make_key("context", returned.query, returned.filters) \notin DOMAIN cache
    /\ cache # <<>>

----------------------------------------------------------------------------
(* ContextCache on its own: get, set and the clock *)

\* the clock advances by one of CacheTicks seconds, up to MaxCacheTime
CacheTicks == {900, 901}

MaxCacheTime == 2703

\* the (query, filters) pairs the cache is asked for
CacheQueries == {<<"A">>, <<"B">>}

CacheFilters == {<<>>, [doc_type |-> "invoice"]}

\* the bundles stored: one or the other chunk, stamped by the caller with the
\* time at which it computed the bundle
CacheChunkIds == {"u1", "u2"}

CacheBundle(c) == <<[chunk_id |-> c, computed_at |-> time]>>

UnchangedByCache ==
    /\ UNCHANGED <<document_chunks, document_fts, next_uuid, searches>>
    /\ UnchangedTasks

\* ContextCache.get(query, filters); is_none tells the None of a miss from an
\* empty bundle
context_cache_get(query, filters) ==
    /\ returned = NoCall
    /\ LET key == _make_key("context", query, filters)
       IN  /\ returned' = [call |-> "get", query |-> query, filters |-> filters,
                           found |-> key \in DOMAIN cache,
                           is_none |-> ~CacheHit(key),
                           value |-> IF CacheHit(key) THEN cache[key].value
                                     ELSE <<>>]
           /\ cache' = CacheAfterGet(key)
    /\ UNCHANGED time
    /\ UnchangedByCache

\* ContextCache.set(query, context, filters)
context_cache_set(query, context, filters) ==
    /\ returned = NoCall
    /\ returned' = [call |-> "set", query |-> query, filters |-> filters,
                    context |-> context]
    /\ cache' = CacheSet(cache, _make_key("context", query, filters), context,
                         context_ttl)
    /\ UNCHANGED time
    /\ UnchangedByCache

\* time passes between two calls
TickCache ==
    /\ returned = NoCall
    /\ \E seconds \in CacheTicks :
         /\ time + seconds <= MaxCacheTime
         /\ time' = time + seconds
    /\ UNCHANGED <<cache, returned>>
    /\ UnchangedByCache

InitCache ==
    /\ document_chunks = EmptyStore.chunks
    /\ document_fts = EmptyStore.fts
    /\ next_uuid = EmptyStore.uuid
    /\ doc_status = [d \in Docs |-> "pending"]
    /\ task = [t \in Tasks |-> IdleTask]
    /\ faults = [t \in Tasks |-> 0]
    /\ InitRetrieval

NextCache ==
    \/ \E query \in CacheQueries, filters \in CacheFilters :
         context_cache_get(query, filters)
    \/ \E query \in CacheQueries, filters \in CacheFilters,
          c \in CacheChunkIds :
         context_cache_set(query, CacheBundle(c), filters)
    \/ TickCache
    \/ Receive

SpecCache == InitCache /\ [][NextCache]_vars

\* C25: a bundle that ContextCache.get returns was stored at most 1800 seconds
\* before; a get that finds an entry older than that returns None and leaves
\* the cache without the entry; after a set the entry of the key holds the
\* bundle of that set, whatever was stored under the key before, and the
\* entries of the other keys are as they were.
C25_StalenessBoundedByTtl ==
    [][/\ (returned' # NoCall /\ returned'.call = "get"
               /\ ~returned'.is_none) =>
            /\ time' - returned'.value[1].computed_at <= 1800
            /\ returned'.value =
                   cache[_make_key("context", returned'.query,
                                   returned'.filters)].value
       /\ (returned' # NoCall /\ returned'.call = "get" /\ returned'.found
               /\ time' - cache[_make_key("context", returned'.query,
                                          returned'.filters)]
                             .value[1].computed_at > 1800) =>
            /\ returned'.is_none
            /\ _make_key("context", returned'.query, returned'.filters)
                   \notin DOMAIN cache'
       /\ (returned' # NoCall /\ returned'.call = "set") =>
            /\ cache'[_make_key("context", returned'.query,
                                returned'.filters)].value = returned'.context
            /\ \A k \in DOMAIN cache :
                   k # _make_key("context", returned'.query, returned'.filters)
                       => (k \in DOMAIN cache' /\ cache'[k] = cache[k])]_vars

\* C25 happens: a get more than 1800 seconds after the set of its key has
\* returned None and removed the entry, while an entry set later under another
\* key is still there
C25_Witness ==
    /\ returned # NoCall
    /\ returned.call = "get"
    /\ returned.found
    /\ returned.is_none
    /\ _make_key("context", returned.query, returned.filters) \notin DOMAIN cache
    /\ cache # <<>>

----------------------------------------------------------------------------
(* Pass C on its own: _pass_c_expansion on the survivors of Pass B *)

ExpansionCorpora ==
    {<<"D1", "D6">>, <<"D1", "D2", "D6">>, <<"D1", "D3">>, <<"D6", "D1", "D2", "D4">>}

\* the limits Pass C is called with
ExpansionLimits == {1, 3, 6, 8}

InitExpansion ==
    /\ \E ds \in ExpansionCorpora :
         LET db == StoreDocuments(EmptyStore, ds)
         IN  /\ document_chunks = db.chunks
             /\ document_fts = db.fts
             /\ next_uuid = db.uuid
    /\ doc_status = [d \in Docs |-> "pending"]
    /\ task = [t \in Tasks |-> IdleTask]
    /\ faults = [t \in Tasks |-> 0]
    /\ InitRetrieval

\* the survivors of Pass B: one or two chunks of the client, best first
Survivors(client_id) ==
    LET mine == {ResultOf(r) : r \in {x \in document_chunks :
                     documents(x.document_id).client_id = client_id}}
    IN  {<<a>> : a \in mine}
            \cup {<<ab[1], ab[2]>> : ab \in {y \in mine \X mine : y[1] # y[2]}}

\* _pass_c_expansion(results, client_id, limit), results being survivors of
\* Pass B for the client
pass_c_expansion(client_id, limit) ==
    /\ returned = NoCall
    /\ \E results \in Survivors(client_id) :
         returned' = [call |-> "_pass_c_expansion", results |-> results,
                      client_id |-> client_id, limit |-> limit,
                      expanded |-> _pass_c_expansion(document_chunks, results,
                                                     client_id, limit)]
    /\ UNCHANGED <<cache, time>>
    /\ UnchangedByCache

NextExpansion ==
    \/ \E client_id \in Clients, limit \in ExpansionLimits :
         pass_c_expansion(client_id, limit)
    \/ Receive

SpecExpansion == InitExpansion /\ [][NextExpansion]_vars

\* x is on the page of survivor s, in its document, at most two chunks away
NeighborOf(x, s) ==
    /\ x.document_id = s.document_id
    /\ x.chunk_id # s.chunk_id
    /\ s.metadata # NoneDict /\ "page" \in DOMAIN s.metadata
    /\ "page" \in DOMAIN x.metadata /\ x.metadata.page = s.metadata.page
    /\ Abs(x.chunk_index - s.chunk_index) <= 2

\* x is the header row of the table survivor s is a row of
HeaderOf(x, s) ==
    /\ x.document_id = s.document_id
    /\ s.metadata # NoneDict /\ "table_index" \in DOMAIN s.metadata
    /\ Get(s.metadata, "chunk_type", "") = "table_row"
    /\ "table_index" \in DOMAIN x.metadata
    /\ x.metadata.table_index = s.metadata.table_index
    /\ Get(x.metadata, "row_index", None) = 0

\* x is a chunk of another document of the client of s that carries the vendor
\* of s or names it in its text
RelatedTo(x, s) ==
    LET vendor == VendorOf(s, IF s.metadata = NoneDict THEN <<>> ELSE s.metadata)
    IN  /\ vendor # <<>>
        /\ x.document_id # s.document_id
        /\ x.client_id = s.client_id
        /\ \/ Get(x.metadata, "vendor", <<>>) = vendor
           \/ Contains(lower(x.text), lower(vendor))

ExpansionReturned == returned # NoCall /\ returned.call = "_pass_c_expansion"

\* the chunks of the bundle that are not survivors
Added ==
    {x \in Range(returned.expanded) : x.chunk_id \notin MapKeys(returned.results)}

\* the chunks of the bundle that only a vendor relation accounts for
OnlyRelated ==
    {x \in Added : \A k \in 1..Len(returned.results) :
                      /\ ~NeighborOf(x, returned.results[k])
                      /\ ~HeaderOf(x, returned.results[k])}

\* C26: every chunk of the bundle of _pass_c_expansion is a survivor, a
\* neighbor of a survivor (same document, same page, index within 2), the
\* header of a survivor's table, or a chunk of another document of the client
\* on a survivor's vendor; and the chunks that only a vendor relation accounts
\* for can be shared out among the survivors with at most 3 for each.
C26_BundleChunksAccountedFor ==
    ExpansionReturned =>
        \A T \in SUBSET (1..Len(returned.results)) :
            Cardinality({x \in OnlyRelated :
                           \A k \in 1..Len(returned.results) :
                               RelatedTo(x, returned.results[k]) => k \in T})
                <= 3 * Cardinality(T)

\* C26 happens: the bundle has room left, three chunks of other documents came
\* in on the vendor of the one survivor, and a fourth chunk on that vendor is
\* in the store and not in the bundle
C26_Witness ==
    /\ ExpansionReturned
    /\ Len(returned.results) = 1
    /\ Len(returned.expanded) < returned.limit
    /\ Cardinality(OnlyRelated) = 3
    /\ \E r \in document_chunks :
         /\ r.id \notin MapKeys(returned.expanded)
         /\ RelatedTo(ExpansionOf(r), returned.results[1])

----------------------------------------------------------------------------
(* Vectors without direction *)

ZeroCorpora == {<<"D7">>, <<"D1", "D7">>, <<"D7", "D2">>}

\* vectors of two and three items, all of integer norm
Vectors ==
    {<<0, 0>>, <<1, 0>>, <<0, -1>>, <<3, 4>>, <<-3, 4>>, <<5, 12>>,
     <<0, 0, 0>>, <<1, 2, 2>>, <<-2, 3, 6>>}

ZeroQueries == {[query |-> <<>>, query_embedding |-> e] :
                  e \in {<<0, 0>>, <<1, 0>>, <<3, 4>>}}

ZeroThresholds == {Rat(-1, 10), Rat(0, 1), Rat(3, 10)}

InitZero ==
    /\ \E ds \in ZeroCorpora :
         LET db == StoreDocuments(EmptyStore, ds)
         IN  /\ document_chunks = db.chunks
             /\ document_fts = db.fts
             /\ next_uuid = db.uuid
    /\ doc_status = [d \in Docs |-> "pending"]
    /\ task = [t \in Tasks |-> IdleTask]
    /\ faults = [t \in Tasks |-> 0]
    /\ InitRetrieval

\* cosine_similarity(vec1, vec2) on two vectors of one dimension
call_cosine_similarity(vec1, vec2) ==
    /\ returned = NoCall
    /\ Len(vec1) = Len(vec2)
    /\ returned' = [call |-> "cosine_similarity", vec1 |-> vec1, vec2 |-> vec2,
                    value |-> cosine_similarity(vec1, vec2)]
    /\ UNCHANGED <<cache, time>>
    /\ UnchangedByCache

NextZero ==
    \/ \E vec1 \in Vectors, vec2 \in Vectors : call_cosine_similarity(vec1, vec2)
    \/ \E q \in ZeroQueries, limit \in Limits, threshold \in ZeroThresholds,
          filters \in SearchFilters :
         semantic_search(q, limit, threshold, filters)
    \/ Receive

SpecZero == InitZero /\ [][NextZero]_vars

AllZero(vec) == \A k \in 1..Len(vec) : vec[k] = 0

\* the embedding stored for a chunk id
EmbeddingOf(chunk_id) == (CHOOSE r \in document_chunks : r.id = chunk_id).embedding

\* the stored chunks that pass the filters of the returned call and have an
\* all-zero embedding
ZeroChunks ==
    {r \in document_chunks :
        /\ r.embedding # <<>>
        /\ AllZero(r.embedding)
        /\ SatisfiesFilters(ResultOf(r), returned.filters)}

\* C27: cosine_similarity is exactly 0 when one of its two vectors is all
\* zero; a result of SemanticSearch.search whose embedding, or whose query
\* embedding, is all zero has similarity 0 and is returned only under a
\* threshold of 0 or less; under such a threshold every zero-embedding chunk
\* that passes the filters is returned as long as the limit leaves room.
C27_ZeroVectorSimilarity ==
    /\ (returned # NoCall /\ returned.call = "cosine_similarity"
            /\ (AllZero(returned.vec1) \/ AllZero(returned.vec2))) =>
         returned.value = [n |-> 0, d |-> 1]
    /\ (returned # NoCall /\ returned.call = "semantic_search") =>
         /\ \A k \in 1..Len(returned.final_results) :
                (\/ AllZero(EmbeddingOf(returned.final_results[k].chunk_id))
                 \/ AllZero(returned.query_embedding)) =>
                    /\ returned.final_results[k].similarity = [n |-> 0, d |-> 1]
                    /\ returned.threshold.n <= 0
         /\ (returned.threshold.n <= 0
                 /\ Len(returned.final_results) < returned.limit) =>
                \A r \in ZeroChunks : r.id \in MapKeys(returned.final_results)

\* C27 happens: a search under threshold 0 returned a zero-embedding chunk,
\* with similarity 0, next to a chunk of positive similarity, and left out a
\* chunk of negative similarity
C27_Witness ==
    /\ returned # NoCall
    /\ returned.call = "semantic_search"
    /\ returned.threshold = [n |-> 0, d |-> 1]
    /\ ~AllZero(returned.query_embedding)
    /\ \E k \in 1..Len(returned.final_results) :
         /\ AllZero(EmbeddingOf(returned.final_results[k].chunk_id))
         /\ returned.final_results[k].similarity = [n |-> 0, d |-> 1]
    /\ \E k \in 1..Len(returned.final_results) :
         returned.final_results[k].similarity.n > 0
    /\ \E r \in document_chunks :
         /\ SatisfiesFilters(ResultOf(r), returned.filters)
         /\ r.id \notin MapKeys(returned.final_results)
         /\ Len(returned.final_results) < returned.limit

----------------------------------------------------------------------------
(* The client of a bundle *)

\* C28: every chunk retrieve_context returns for a client belongs to a
\* document of that client, whatever calls were made before for other clients
\* with the same query and filters and the context cache in use.
C28_BundleOfCallingClient ==
    (returned # NoCall /\ returned.call = "retrieve_context" /\ ~returned.raised) =>
        \A k \in 1..Len(returned.final_results) :
            returned.final_results[k].client_id = returned.client_id

\* the same of the bundles that were computed by the call itself
C28_ComputedBundleOfCallingClient ==
    (returned # NoCall /\ returned.call = "retrieve_context" /\ ~returned.raised
        /\ ~returned.cached) =>
        \A k \in 1..Len(returned.final_results) :
            returned.final_results[k].client_id = returned.client_id

----------------------------------------------------------------------------
(* The survivors in the bundle *)

\* Pass C has run in the call that returned
ExpansionRan == PassesReturned /\ returned.filtered_results # <<>>

\* C29: the bundle of Pass C holds every survivor of Pass B unless it has
\* exactly `limit` chunks, and when limit >= 1 its first chunk is a survivor
\* whose score no other survivor exceeds.
C29_SurvivorsOmittedOnlyWhenFull ==
    ExpansionRan =>
        /\ \/ \A k \in 1..Len(returned.filtered_results) :
                 returned.filtered_results[k].chunk_id
                     \in MapKeys(returned.final_results)
           \/ Len(returned.final_results) = returned.limit
        /\ returned.limit >= 1 =>
              /\ returned.final_results # <<>>
              /\ returned.final_results[1] \in Range(returned.filtered_results)
              /\ \A k \in 1..Len(returned.filtered_results) :
                     ~RatLess(ScoreOf(returned.final_results[1]),
                              ScoreOf(returned.filtered_results[k]))

\* C29 happens: the bundle is full, a chunk added for the best survivor took
\* the place of a survivor of lower score, which is left out
C29_Witness ==
    /\ ExpansionRan
    /\ returned.limit >= 2
    /\ Len(returned.final_results) = returned.limit
    /\ \E k \in 1..Len(returned.final_results) :
         returned.final_results[k].chunk_id
             \notin MapKeys(returned.filtered_results)
    /\ \E k \in 1..Len(returned.filtered_results) :
         /\ returned.filtered_results[k].chunk_id
                \notin MapKeys(returned.final_results)
         /\ RatLess(ScoreOf(returned.filtered_results[k]),
                    ScoreOf(returned.final_results[1]))

----------------------------------------------------------------------------
(* Candidates of the lexical engine alone *)

\* a candidate of Pass A that the semantic engine did not return
LexicalOnly(x) == "similarity" \notin DOMAIN x

\* C30: a candidate of Pass A returned by the lexical engine alone has a
\* combined_score of at most 0.3, and it is among the survivors of Pass B only
\* if the entity override keeps it.
C30_LexicalOnlyNeedsOverride ==
    PassesReturned =>
        /\ \A k \in 1..Len(returned.initial_results) :
               LexicalOnly(returned.initial_results[k]) =>
                   ~RatLess(Rat(3, 10), returned.initial_results[k].combined_score)
        /\ \A k \in 1..Len(returned.filtered_results) :
               LexicalOnly(returned.filtered_results[k]) =>
                   ForceKept(returned.filtered_results[k])

\* C30 happens: of two candidates of the lexical engine alone, Pass B kept the
\* one that holds an identifier of the query and dropped the other
C30_Witness ==
    /\ PassesReturned
    /\ \E k \in 1..Len(returned.filtered_results) :
         /\ LexicalOnly(returned.filtered_results[k])
         /\ ForceKept(returned.filtered_results[k])
    /\ \E k \in 1..Len(returned.initial_results) :
         /\ LexicalOnly(returned.initial_results[k])
         /\ ~ForceKept(returned.initial_results[k])
         /\ returned.initial_results[k].combined_score.n > 0
         /\ returned.initial_results[k].chunk_id
                \notin MapKeys(returned.filtered_results)

====
